---------------------------- MODULE Spec2Model ----------------------------
(***************************************************************************)
(* Model of the ESP32 physiological signal acquisition firmware:           *)
(*   - SpO2Calculator (include/spo2_custom.h): ring buffers, finger        *)
(*     presence hysteresis, peak-based heart rate, R-ratio SpO2;           *)
(*   - the ECG hand-off between the timer interrupt onEcgTimer and         *)
(*     processECG (src/main.cpp);                                          *)
(*   - SignalFilter / AudioFilter (include/filters.h) and                  *)
(*     RealTimeWaveletDenoiser (include/wavelet.h).                        *)
(*                                                                         *)
(* Numbers.  TLC has 32-bit integers and no floats.  The floats of         *)
(* SpO2Calculator are fixed-point integers (heart rate and SpO2 in         *)
(* 1/FP units), the floats of the filters are records that are either a    *)
(* finite integer or one of NaN, +Inf, -Inf (see the float section).       *)
(* millis() is the model variable now; its 32-bit wrap (after 49 days) is  *)
(* not modelled.                                                           *)
(***************************************************************************)
EXTENDS Integers, Sequences, FiniteSets, TLC

(***************************************************************************)
(* Program constants of spo2_custom.h                                      *)
(***************************************************************************)
SPO2_BUFFER_SIZE == 200
SPO2_MIN_SAMPLES == 50
SPO2_UPDATE_INTERVAL == 300
\* HR_SMOOTHING_FACTOR 0.15f and SPO2_SMOOTHING_FACTOR 0.15f, in percent
HR_SMOOTHING_PCT == 15
SPO2_SMOOTHING_PCT == 15
\* HR_MAX_CHANGE 25.0f
HR_MAX_CHANGE == 25
FINGER_THRESHOLD_LOW == 1500
FINGER_THRESHOLD_HIGH == 100000
FINGER_STABLE_COUNT == 30

\* Fixed-point scale of the heart-rate and SpO2 floats (1/1000 bpm, 1/1000 %).
FP == 10 * 10 * 10
\* Scale of the AC/DC ratios inside calculate().
RatioScale == 10 * FP

(***************************************************************************)
(* Small helpers                                                           *)
(***************************************************************************)
Abs(x) == IF x < 0 THEN -x ELSE x

Min(a, b) == IF a < b THEN a ELSE b

\* floor(sqrt(n)) by bisection on [lo, hi]; sqrtf of calculate()
RECURSIVE SqrtBetween(_, _, _)
SqrtBetween(n, lo, hi) ==
  IF lo >= hi THEN lo
  ELSE LET mid == (lo + hi + 1) \div 2
       IN IF mid <= n \div mid THEN SqrtBetween(n, mid, hi)
          ELSE SqrtBetween(n, lo, mid - 1)

ISqrt(n) == IF n <= 0 THEN 0 ELSE SqrtBetween(n, 1, Min(n, 46340))

(***************************************************************************)
(* State                                                                   *)
(***************************************************************************)
VARIABLES
  calc,        \* the SpO2Calculator object (a record of its fields)
  now,         \* what millis() returns
  \* the caller of SpO2Calculator (environment) and history of its calls
  samplePeriod,   \* ms between two addSample calls in this run
  envIr,          \* IR value the sensor currently delivers
  switches,       \* how often the sensor changed between contact / no contact
  fed,            \* number of addSample calls made
  runLen,         \* length of the current run of qualifying samples
  runStartCount,  \* stableFingerCount when the current run began
  runStartPresent,\* fingerPresent when the current run began
  runAfterNonQual,\* the current run follows a non-qualifying sample
  peakSinceContact, \* lastPeakTime was set since contact was (re)established
  hadLoss,        \* fingerPresent went true -> false at least once
  lastCall,       \* the last operation called on the SpO2Calculator
  redLevels,      \* red values the sensor delivers with the two contact levels
  fedLog,         \* the <<red, IR>> pairs of the addSample calls, in order
  \* main.cpp: the ECG channel
  rawECG,         \* volatile int rawECG, with the production number of the sample
  ecgSampleReady, \* volatile bool ecgSampleReady
  ecgFilter,      \* SignalFilter ecgFilter
  ecgWavelet,     \* RealTimeWaveletDenoiser ecgWavelet
  filteredECG,    \* float filteredECG
  waveletECG,     \* float waveletECG
  pc,             \* where the main loop is
  \* history of the ECG hand-off
  produced,       \* number of samples onEcgTimer has produced
  clearedSeq,     \* production number in rawECG when the flag was last cleared
  processed,      \* production numbers of the samples filtered, in order
  leadOffSince,   \* lead-off was detected since the last filtered sample
  cleared,        \* number of samples processECG has taken (flag cleared)
  \* main.cpp: the audio channel's filter
  audioFilter,    \* AudioFilter audioFilter
  filteredAudio,  \* float filteredAudio
  \* history of direct process() calls on the filters
  filterCalls,    \* process() calls made on filters whose delay lines are finite
  lastIn,         \* input of the last process() call
  lastCascade,    \* what the cascade computed in that call (before the check)
  lastFilter,     \* which filter that call was made on
  blownUp,        \* a call with finite input had a non-finite cascade output
  \* main.cpp: the PPG and audio channels and the rest of loop()
  max30102Initialized, \* bool max30102Initialized
  micInitialized, \* INMP441::initialized of microphone
  i2sDelivers,    \* the I2S driver delivers samples (readSample returns)
  ppg,            \* the PPG globals and processPPG's statics (a record)
  rawAudio,       \* int16_t rawAudio
  audioOutputCounter, \* processAudio's static audioOutputCounter
  outputCounter,  \* int outputCounter
  lastDisplayTime,\* unsigned long lastDisplayTime
  micros,         \* what micros() returns; millis() is micros \div 1000
  \* history of the main loop
  loops,          \* iterations of loop() completed
  taken,          \* samples the PPG and the audio channel have taken
  atTurn,         \* per channel: what the others had taken at its last turn
  \* wavelet.h: the batch WaveletDenoiser
  denoiser,       \* a WaveletDenoiser object (a record of its fields)
  added,          \* number of addSample calls since reset()
  sampleLog,      \* the samples of those calls, in order
  passes,         \* the processBuffer passes: call number and working block
  \* wavelet.h: the Haar transform pair applied to one block
  haarIn,         \* the input block
  haarOut,        \* the block after decomposition and reconstruction
  haarOp,         \* what was applied to the block
  haarThresholds, \* the thresholds processBuffer computed per level
  \* history of processPPG's collection window
  ppgLog,         \* the samples written to redBuffer/irBuffer, in order
  ppgCall,        \* the last sample processPPG read: branch, values, index
  lowRun,         \* consecutive samples read with IR below 50000, to now
  fingerPhase     \* the finger is "on" the sensor, "away" from it, or "back"

spo2Vars == <<calc, now, samplePeriod, envIr, switches, fed, runLen,
              runStartCount, runStartPresent, runAfterNonQual,
              peakSinceContact, hadLoss, lastCall, redLevels, fedLog>>

ecgVars == <<rawECG, ecgSampleReady, ecgFilter, ecgWavelet, filteredECG,
             waveletECG, pc, produced, clearedSeq, processed, leadOffSince,
             cleared>>

filterVars == <<audioFilter, filteredAudio, filterCalls, lastIn, lastCascade,
                lastFilter, blownUp>>

loopVars == <<max30102Initialized, micInitialized, i2sDelivers, ppg, rawAudio,
              audioOutputCounter, outputCounter, lastDisplayTime, micros,
              loops, taken, atTurn>>

denoiserVars == <<denoiser, added, sampleLog, passes>>

haarVars == <<haarIn, haarOut, haarOp, haarThresholds>>

waveletVars == <<denoiserVars, haarVars>>

windowVars == <<ppgLog, ppgCall, lowRun, fingerPhase>>

vars == <<spo2Vars, ecgVars, filterVars, loopVars, waveletVars, windowVars>>

(***************************************************************************)
(* SpO2Calculator                                                          *)
(***************************************************************************)
\* The object after construction (in-class initialisers); the arrays of a
\* global object are zero-initialised and calculate() reads only entries
\* below sampleCount, all written by addSample.
SpO2Constructed ==
  [ redBuffer |-> [i \in 0..(SPO2_BUFFER_SIZE - 1) |-> 0],
    irBuffer |-> [i \in 0..(SPO2_BUFFER_SIZE - 1) |-> 0],
    bufferIndex |-> 0,
    sampleCount |-> 0,
    redDC |-> 0, irDC |-> 0, redAC |-> 0, irAC |-> 0,
    currentSpO2 |-> 0,
    currentHeartRate |-> 0,
    filteredSpO2 |-> 98 * FP,
    filteredHeartRate |-> 75 * FP,
    lastUpdateTime |-> 0,
    lastPeakTime |-> 0,
    peakCount |-> 0,
    lastIR |-> 0,
    lastLastIR |-> 0,
    peakThreshold |-> 0,
    fingerPresent |-> FALSE,
    stableFingerCount |-> 0 ]

\* init(): resets six fields only
SpO2Init(s) ==
  [s EXCEPT !.bufferIndex = 0,
            !.sampleCount = 0,
            !.filteredSpO2 = 98 * FP,
            !.filteredHeartRate = 75 * FP,
            !.fingerPresent = FALSE,
            !.stableFingerCount = 0]

\* the test of addSample on the IR value
Qualifies(irValue) ==
  irValue > FINGER_THRESHOLD_LOW /\ irValue < FINGER_THRESHOLD_HIGH

\* mutant of the ring buffers: a full buffer keeps its oldest pair
PushSampleKeepOldest(s, redValue, irValue) ==
  IF s.sampleCount < SPO2_BUFFER_SIZE
  THEN [s EXCEPT !.redBuffer[s.bufferIndex] = redValue,
                 !.irBuffer[s.bufferIndex] = irValue,
                 !.bufferIndex = (s.bufferIndex + 1) % SPO2_BUFFER_SIZE,
                 !.sampleCount = s.sampleCount + 1]
  ELSE s

\* addSample, first part: the two ring buffers
PushSample(s, redValue, irValue) ==
  [s EXCEPT !.redBuffer[s.bufferIndex] = redValue,
            !.irBuffer[s.bufferIndex] = irValue,
            !.bufferIndex = (s.bufferIndex + 1) % SPO2_BUFFER_SIZE,
            !.sampleCount = IF s.sampleCount < SPO2_BUFFER_SIZE
                            THEN s.sampleCount + 1 ELSE s.sampleCount]

\* mutant of the decay: a non-qualifying sample resets the counter at once
FingerUpdateReset(s, irValue) ==
  IF Qualifies(irValue)
  THEN [s EXCEPT !.stableFingerCount = s.stableFingerCount + 1,
                 !.fingerPresent = IF s.stableFingerCount + 1 > FINGER_STABLE_COUNT
                                   THEN TRUE ELSE s.fingerPresent]
  ELSE [s EXCEPT !.stableFingerCount = 0, !.fingerPresent = FALSE]

\* mutant of the hysteresis: presence asserted one sample early (>= for >)
FingerUpdateEarly(s, irValue) ==
  IF Qualifies(irValue)
  THEN [s EXCEPT !.stableFingerCount = s.stableFingerCount + 1,
                 !.fingerPresent = IF s.stableFingerCount + 1 >= FINGER_STABLE_COUNT
                                   THEN TRUE ELSE s.fingerPresent]
  ELSE LET c == IF s.stableFingerCount > 0 THEN s.stableFingerCount - 1
                ELSE s.stableFingerCount
       IN [s EXCEPT !.stableFingerCount = c,
                    !.fingerPresent = IF c = 0 THEN FALSE ELSE s.fingerPresent]

\* addSample, second part: the finger-presence hysteresis
FingerUpdate(s, irValue) ==
  IF Qualifies(irValue)
  THEN [s EXCEPT !.stableFingerCount = s.stableFingerCount + 1,
                 !.fingerPresent = IF s.stableFingerCount + 1 > FINGER_STABLE_COUNT
                                   THEN TRUE ELSE s.fingerPresent]
  ELSE LET c == IF s.stableFingerCount > 0 THEN s.stableFingerCount - 1
                ELSE s.stableFingerCount
       IN [s EXCEPT !.stableFingerCount = c,
                    !.fingerPresent = IF c = 0 THEN FALSE ELSE s.fingerPresent]

\* peakThreshold after detectPeak's adaptive update (truncated to uint32)
NextPeakThreshold(s, irValue) ==
  IF s.peakThreshold = 0 THEN irValue
  ELSE (s.peakThreshold * 95 + irValue * 5) \div 100

\* detectPeak's peak test: lastIR above both neighbours and above the
\* threshold by 0.5 %
IsPeak(s, irValue) ==
  /\ s.lastIR > s.lastLastIR
  /\ s.lastIR > irValue
  /\ s.lastIR * 1000 > NextPeakThreshold(s, irValue) * 1005

\* 60000.0f / interval, in 1/FP bpm
InstantHR(interval) == (60000 * FP) \div interval

\* the interval test of detectPeak
IntervalOk(s, t) ==
  /\ t - s.lastPeakTime > 300
  /\ t - s.lastPeakTime < 1500
  /\ s.lastPeakTime > 0

\* mutant of the outlier rule: every estimate in the range is accepted
HrAcceptedAlways(s, hr) == hr >= 40 * FP /\ hr <= 180 * FP

\* the range and outlier tests of detectPeak on an instantaneous estimate
HrAccepted(s, hr) ==
  /\ hr >= 40 * FP
  /\ hr <= 180 * FP
  /\ (Abs(hr - s.filteredHeartRate) <= HR_MAX_CHANGE * FP \/ s.peakCount < 3)

\* a peak at time t folds an estimate into filteredHeartRate
HrUpdates(s, irValue, t) ==
  /\ s.fingerPresent
  /\ IsPeak(s, irValue)
  /\ IntervalOk(s, t)
  /\ HrAccepted(s, InstantHR(t - s.lastPeakTime))

\* detectPeak(irValue), millis() returning t
detectPeak(s, irValue, t) ==
  IF ~s.fingerPresent
  THEN [s EXCEPT !.lastIR = 0, !.lastLastIR = 0, !.peakCount = 0]
  ELSE LET pt == NextPeakThreshold(s, irValue)
           s1 == [s EXCEPT !.peakThreshold = pt]
           hr == InstantHR(t - s.lastPeakTime)
           s2 == IF IsPeak(s, irValue)
                 THEN LET s3 == IF IntervalOk(s, t) /\ HrAccepted(s, hr)
                                THEN [s1 EXCEPT
                                        !.currentHeartRate = hr,
                                        !.filteredHeartRate =
                                           (s.filteredHeartRate * (100 - HR_SMOOTHING_PCT)
                                            + hr * HR_SMOOTHING_PCT) \div 100,
                                        !.peakCount = s.peakCount + 1]
                                ELSE s1
                      IN [s3 EXCEPT !.lastPeakTime = t]
                 ELSE s1
       IN [s2 EXCEPT !.lastLastIR = s.lastIR, !.lastIR = irValue]

\* addSample(redValue, irValue), millis() returning t
addSample(s, redValue, irValue, t) ==
  detectPeak(FingerUpdate(PushSample(s, redValue, irValue), irValue), irValue, t)

\* sum of buf[lo..hi-1] (the DC loops of calculate), by halves
RECURSIVE SumRange(_, _, _)
SumRange(buf, lo, hi) ==
  IF hi <= lo THEN 0
  ELSE IF hi = lo + 1 THEN buf[lo]
  ELSE SumRange(buf, lo, (lo + hi) \div 2) + SumRange(buf, (lo + hi) \div 2, hi)

SumTo(buf, n) == SumRange(buf, 0, n)

\* <<q, r>> + <<q2, r2>> as quotient and remainder by count
AddQR(a, b, count) ==
  <<a[1] + b[1] + ((a[2] + b[2]) \div count), (a[2] + b[2]) % count>>

\* <<q, r>> with q = floor(S / count), r = S mod count for
\* S = sum of (buf[i] - dc)^2 over lo <= i < hi, accumulated by halves
\* without leaving 32 bits
RECURSIVE MeanSqRange(_, _, _, _, _)
MeanSqRange(buf, dc, lo, hi, count) ==
  IF hi <= lo THEN <<0, 0>>
  ELSE IF hi = lo + 1
       THEN <<((buf[lo] - dc) * (buf[lo] - dc)) \div count,
              ((buf[lo] - dc) * (buf[lo] - dc)) % count>>
  ELSE AddQR(MeanSqRange(buf, dc, lo, (lo + hi) \div 2, count),
             MeanSqRange(buf, dc, (lo + hi) \div 2, hi, count), count)

MeanSqAcc(buf, dc, n, count) == MeanSqRange(buf, dc, 0, n, count)

\* sqrtf(sqSum / sampleCount): the AC value of one channel
AcOf(buf, dc, count) == ISqrt(MeanSqAcc(buf, dc, count, count)[1])

\* 110.0f - 25.0f * R in 1/FP %, R = (redAC / redDC) / (irAC / irDC);
\* called with redDC, irDC, irAC >= 1.  A ratio below 1/RatioScale is read
\* as 0 (R = 0 when the red ratio vanishes, R unbounded when only the IR
\* ratio does).
RawSpO2(redAC, redDC, irAC, irDC) ==
  LET ratioRed == (redAC * RatioScale) \div redDC
      ratioIr == (irAC * RatioScale) \div irDC
  IN IF ratioRed = 0 THEN 110 * FP
     ELSE IF ratioIr = 0 THEN -1
     ELSE 110 * FP - 25 * ((ratioRed * FP) \div ratioIr)

\* mutant of the clamp: the estimate is used as it is
ClampNone(x) == x

\* the clamp of calculate() to [70, 100]
ClampSpO2(x) ==
  IF x > 100 * FP THEN 100 * FP ELSE IF x < 70 * FP THEN 70 * FP ELSE x

\* mutant of the gate: the sample count is not tested
CalcGateNoCount(s) == s.fingerPresent

\* the gate of calculate(): finger present and enough samples
CalcGate(s) == s.fingerPresent /\ s.sampleCount >= SPO2_MIN_SAMPLES

\* mutant of the rate limit: no call is refused
RateLimitedNever(s, t) == FALSE

\* the rate limit of calculate(): too soon after the last recomputation
RateLimited(s, t) == t - s.lastUpdateTime < SPO2_UPDATE_INTERVAL

\* calculate(), millis() returning t
calculate(s, t) ==
  IF ~CalcGate(s) THEN s
  ELSE IF RateLimited(s, t) THEN s
  ELSE LET n == s.sampleCount
           rDC == SumTo(s.redBuffer, n) \div n
           iDC == SumTo(s.irBuffer, n) \div n
           rAC == AcOf(s.redBuffer, rDC, n)
           iAC == AcOf(s.irBuffer, iDC, n)
           s1 == [s EXCEPT !.lastUpdateTime = t,
                           !.redDC = rDC, !.irDC = iDC,
                           !.redAC = rAC, !.irAC = iAC]
           spo2 == ClampSpO2(RawSpO2(rAC, rDC, iAC, iDC))
       IN IF iDC < 1 \/ rDC < 1 \/ iAC < 1 THEN s1
          ELSE IF spo2 >= 85 * FP /\ spo2 <= 100 * FP
          THEN [s1 EXCEPT !.currentSpO2 = spo2,
                          !.filteredSpO2 =
                             (s.filteredSpO2 * (100 - SPO2_SMOOTHING_PCT)
                              + spo2 * SPO2_SMOOTHING_PCT) \div 100]
          ELSE s1

(***************************************************************************)
(* Floats of filters.h and wavelet.h.  A float is a record: finite with an *)
(* integer value of magnitude at most FloatMax (the model's FLT_MAX), or   *)
(* NaN, +Inf, -Inf.  Arithmetic follows IEEE 754: a result beyond FloatMax *)
(* is an infinity, Inf - Inf and 0 * Inf are NaN, NaN propagates, every    *)
(* comparison with NaN is false.  Products with a coefficient are rounded  *)
(* to the nearest integer.                                                 *)
(***************************************************************************)
\* largest finite float of the model
FloatMax == 100000
\* coefficients are integers over CoefDen
CoefDen == 10 * FP

Fin(v) == [k |-> "fin", v |-> v]
NaN == [k |-> "nan", v |-> 0]
PInf == [k |-> "inf", v |-> 1]
NInf == [k |-> "inf", v |-> -1]
Zero == Fin(0)

\* isnan(x) || isinf(x)
NonFinite(x) == x.k # "fin"

\* the floats of the model
Float == [k : {"fin", "nan", "inf"}, v : Int]

\* a real result as a float: overflow gives an infinity
Norm(n) == IF n > FloatMax THEN PInf ELSE IF n < -FloatMax THEN NInf ELSE Fin(n)

\* The operations are functions on Float, so that an operand is evaluated
\* once, before the operation.
FNegF[a \in Float] == IF a.k = "nan" THEN NaN ELSE [k |-> a.k, v |-> -a.v]

\* -a
FNeg(a) == FNegF[a]

FAddF[a \in Float, b \in Float] ==
  IF a.k = "nan" \/ b.k = "nan" THEN NaN
  ELSE IF a.k = "inf" /\ b.k = "inf" THEN (IF a.v = b.v THEN a ELSE NaN)
  ELSE IF a.k = "inf" THEN a
  ELSE IF b.k = "inf" THEN b
  ELSE Norm(a.v + b.v)

\* a + b
FAdd(a, b) == FAddF[a, b]

\* a - b
FSub(a, b) == FAddF[a, FNegF[b]]

\* n / d rounded to the nearest integer, d > 0
RoundDiv(n, d) == IF n >= 0 THEN (n + d \div 2) \div d
                  ELSE -(((-n) + d \div 2) \div d)

FScaleF[a \in Float, num \in Int, den \in Int] ==
  IF a.k = "nan" THEN NaN
  ELSE IF a.k = "inf" THEN (IF num = 0 THEN NaN
                            ELSE IF num > 0 THEN a ELSE FNegF[a])
  ELSE Norm(RoundDiv(a.v * num, den))

\* a * (num / den), den > 0
FScale(a, num, den) == FScaleF[a, num, den]

\* coefficient c (over CoefDen) times a
FMulC(c, a) == FScaleF[a, c, CoefDen]

FAbsF[a \in Float] == IF a.k = "nan" THEN NaN ELSE [k |-> a.k, v |-> Abs(a.v)]

\* abs(x) of Arduino.h: ((x) > 0 ? (x) : -(x))
FAbs(a) == FAbsF[a]

FGreaterF[a \in Float, b \in Float] ==
  /\ a.k # "nan" /\ b.k # "nan"
  /\ IF a.k = "inf" THEN a.v > 0 /\ ~(b.k = "inf" /\ b.v > 0)
     ELSE IF b.k = "inf" THEN b.v < 0
     ELSE a.v > b.v

\* a > b
FGreater(a, b) == FGreaterF[a, b]

(***************************************************************************)
(* SignalFilter and AudioFilter (filters.h)                                *)
(***************************************************************************)
\* DC_BLOCKER_ALPHA 0.995f over CoefDen
DC_BLOCKER_ALPHA == 9950

\* calculateNotchCoeffs(50 Hz, fs = 1000, Q = 30), over CoefDen
notch50_coeffs == [b0 |-> 9949, b1 |-> -18924, b2 |-> 9949, a1 |-> -18924, a2 |-> 9898]
\* calculateNotchCoeffs(100 Hz, fs = 1000, Q = 30)
notch100_coeffs == [b0 |-> 9903, b1 |-> -16023, b2 |-> 9903, a1 |-> -16023, a2 |-> 9806]
\* calculateHighPassCoeffs(1 Hz, fs = 1000)
hp_coeffs == [b0 |-> 9956, b1 |-> -19911, b2 |-> 9956, a1 |-> -19911, a2 |-> 9912]
\* calculateLowPassCoeffs(100 Hz, fs = 1000)
lp_coeffs == [b0 |-> 675, b1 |-> 1349, b2 |-> 675, a1 |-> -11430, a2 |-> 4128]
\* AudioFilter::calculateHighPassCoeffs(80 Hz, fs = 16000)
audio_hp_coeffs == [b0 |-> 9780, b1 |-> -19561, b2 |-> 9780, a1 |-> -19556, a2 |-> 9565]

\* resetState: a BiquadState with all four delay registers 0
BiquadReset == [x1 |-> Zero, x2 |-> Zero, y1 |-> Zero, y2 |-> Zero]

\* the output y of applyBiquad
BiquadOut(x, c, st) ==
  FSub(FSub(FAdd(FAdd(FMulC(c.b0, x), FMulC(c.b1, st.x1)), FMulC(c.b2, st.x2)),
            FMulC(c.a1, st.y1)),
       FMulC(c.a2, st.y2))

\* the BiquadState after applyBiquad
BiquadNext(x, c, st) ==
  [x1 |-> x, x2 |-> st.x1, y1 |-> BiquadOut(x, c, st), y2 |-> st.y1]

\* SignalFilter::reset(): every delay line zero (the object after init())
SignalFilterReset ==
  [dc_x1 |-> Zero, dc_y1 |-> Zero,
   notch50_state |-> BiquadReset, notch100_state |-> BiquadReset,
   hp_state |-> BiquadReset, lp_state |-> BiquadReset]

\* the outputs of the five stages of SignalFilter::process for input x
DcOut(f, x) == FAdd(FSub(x, f.dc_x1), FMulC(DC_BLOCKER_ALPHA, f.dc_y1))
Notch50Out(f, x) == BiquadOut(DcOut(f, x), notch50_coeffs, f.notch50_state)
Notch100Out(f, x) == BiquadOut(Notch50Out(f, x), notch100_coeffs, f.notch100_state)
HpOut(f, x) == BiquadOut(Notch100Out(f, x), hp_coeffs, f.hp_state)
\* the output of the cascade, before the check of process
CascadeOut(f, x) == BiquadOut(HpOut(f, x), lp_coeffs, f.lp_state)

\* the delay lines after the cascade ran on input x
CascadeNext(f, x) ==
  [dc_x1 |-> x, dc_y1 |-> DcOut(f, x),
   notch50_state |-> BiquadNext(DcOut(f, x), notch50_coeffs, f.notch50_state),
   notch100_state |-> BiquadNext(Notch50Out(f, x), notch100_coeffs, f.notch100_state),
   hp_state |-> BiquadNext(Notch100Out(f, x), hp_coeffs, f.hp_state),
   lp_state |-> BiquadNext(HpOut(f, x), lp_coeffs, f.lp_state)]

\* mutant of the output check: the cascade output is returned as it is
SignalOutUnchecked(f, x) ==
  IF NonFinite(x) THEN Zero ELSE CascadeOut(f, x)

\* SignalFilter::process(x): the value returned
SignalOut(f, x) ==
  IF NonFinite(x) THEN Zero
  ELSE IF NonFinite(CascadeOut(f, x)) THEN Zero
  ELSE CascadeOut(f, x)

\* mutant of the input check: the stages run on any input
SignalNextUnguarded(f, x) == CascadeNext(f, x)

\* SignalFilter::process(x): the object afterwards
SignalNext(f, x) == IF NonFinite(x) THEN f ELSE CascadeNext(f, x)

\* AudioFilter::reset()
AudioFilterReset == [dc_x1 |-> Zero, dc_y1 |-> Zero, hp_state |-> BiquadReset]

AudioDcOut(f, x) == FAdd(FSub(x, f.dc_x1), FMulC(DC_BLOCKER_ALPHA, f.dc_y1))
AudioCascadeOut(f, x) == BiquadOut(AudioDcOut(f, x), audio_hp_coeffs, f.hp_state)

\* AudioFilter::process(x): the value returned
AudioOut(f, x) ==
  IF NonFinite(x) THEN Zero
  ELSE IF NonFinite(AudioCascadeOut(f, x)) THEN Zero
  ELSE AudioCascadeOut(f, x)

\* AudioFilter::process(x): the object afterwards
AudioNext(f, x) ==
  IF NonFinite(x) THEN f
  ELSE [dc_x1 |-> x, dc_y1 |-> AudioDcOut(f, x),
        hp_state |-> BiquadNext(AudioDcOut(f, x), audio_hp_coeffs, f.hp_state)]

(***************************************************************************)
(* RealTimeWaveletDenoiser (wavelet.h)                                     *)
(***************************************************************************)
\* 0.7071f over CoefDen
HAAR == 7071

\* reset()
WaveletReset ==
  [buffer |-> [i \in 0..15 |-> Zero], bufferIndex |-> 0, lastOutput |-> Zero]

\* softThreshold(x, threshold)
softThreshold(x, threshold) ==
  IF FGreater(x, threshold) THEN FSub(x, threshold)
  ELSE IF FGreater(FNeg(threshold), x) THEN FAdd(x, threshold)
  ELSE Zero

\* rs[4] of process(sample): the centre sample of the 2-level Haar
\* reconstruction of the last 8 samples, buf being buffer after the write
WaveletCentre(buf, idx) ==
  LET sv(i) == buf[(idx - (7 - i) + 16) % 16]
      a1(i) == FMulC(HAAR, FAdd(sv(2 * i), sv(2 * i + 1)))
      d1(i) == FMulC(HAAR, FSub(sv(2 * i), sv(2 * i + 1)))
      a2(i) == FMulC(HAAR, FAdd(a1(2 * i), a1(2 * i + 1)))
      d2(i) == FMulC(HAAR, FSub(a1(2 * i), a1(2 * i + 1)))
      sumAbs == FAdd(FAdd(FAdd(FAdd(FAdd(FAbs(d1(0)), FAbs(d1(1))), FAbs(d1(2))),
                               FAbs(d1(3))), FAbs(d2(0))), FAbs(d2(1)))
      \* sumAbs / 6.0f * WAVELET_THRESHOLD_MULTIPLIER (1.5f)
      threshold == FScale(FScale(sumAbs, 1, 6), 3, 2)
      td1 == softThreshold(d1(2), threshold)
      td2 == softThreshold(d2(1), FScale(threshold, 7, 10))
      ra1 == FMulC(HAAR, FAdd(a2(1), td2))
  IN FMulC(HAAR, FAdd(ra1, td1))

\* process(sample): the object afterwards
WaveletNext(w, sample) ==
  LET buf == [w.buffer EXCEPT ![w.bufferIndex] = sample]
  IN [buffer |-> buf,
      bufferIndex |-> (w.bufferIndex + 1) % 16,
      lastOutput |-> WaveletCentre(buf, w.bufferIndex)]

\* process(sample): the value returned
WaveletOut(w, sample) ==
  LET out == WaveletNext(w, sample).lastOutput
  IN IF NonFinite(out) THEN FScale(sample, 1, 2) ELSE out

(***************************************************************************)
(* The caller of SpO2Calculator.  The sensor delivers either a no-contact  *)
(* level or a pulse that alternates between two contact levels; the caller *)
(* calls addSample every samplePeriod ms.                                  *)
(***************************************************************************)
\* SpecFinger: addSample calls in a run, changes between contact and no contact
MaxSamples == 34
MaxSwitches == 2
\* SpecSpO2: addSample calls in a run, changes between contact and no contact
MaxCalcSamples == 56
MaxCalcSwitches == 1
\* SpecContact: addSample calls in a run, changes between contact and no contact
MaxGapSamples == 100
MaxGapSwitches == 2

IrNone == 1000
IrLow == 20000
IrHigh == 40000
RedLow == 25000
RedHigh == 35000

\* the red value the sensor delivers with an IR value
RedOf(ir) ==
  IF ir = IrHigh THEN redLevels.hi ELSE IF ir = IrLow THEN redLevels.lo ELSE ir

\* history of the calls, kept beside the object: s is the object before
\* addSample(_, ir, t), s2 the object after it
Feed(ir, t) ==
  LET s2 == addSample(calc, RedOf(ir), ir, t)
  IN /\ calc' = s2
     /\ now' = t
     /\ envIr' = ir
     /\ fed' = fed + 1
     /\ runLen' = IF Qualifies(ir) THEN runLen + 1 ELSE 0
     /\ runStartCount' = IF Qualifies(ir) /\ runLen = 0
                         THEN calc.stableFingerCount ELSE runStartCount
     /\ runStartPresent' = IF Qualifies(ir) /\ runLen = 0
                           THEN calc.fingerPresent ELSE runStartPresent
     /\ runAfterNonQual' = IF Qualifies(ir) /\ runLen = 0
                           THEN (fed > 0) ELSE runAfterNonQual
     /\ peakSinceContact' = IF ~s2.fingerPresent THEN FALSE
                            ELSE IF s2.lastPeakTime # calc.lastPeakTime THEN TRUE
                            ELSE peakSinceContact
     /\ hadLoss' = (hadLoss \/ (calc.fingerPresent /\ ~s2.fingerPresent))
     /\ lastCall' = "addSample"
     /\ fedLog' = Append(fedLog, <<RedOf(ir), ir>>)
     /\ UNCHANGED <<samplePeriod, redLevels, ecgVars, filterVars, loopVars, windowVars, waveletVars>>

\* the sensor level stays: the same IR value again
FeedHold(maxFed) ==
  /\ fed < maxFed
  /\ Feed(envIr, now + samplePeriod)
  /\ UNCHANGED switches

\* no contact: the same no-contact IR value again
FeedIdle(maxFed) ==
  /\ ~Qualifies(envIr)
  /\ FeedHold(maxFed)

\* contact is made or lost: the IR value changes class
FeedSwitch(levels, maxFed, maxSwitches) ==
  \E ir \in levels :
    /\ fed < maxFed
    /\ Qualifies(ir) # Qualifies(envIr)
    /\ switches < maxSwitches
    /\ switches' = switches + 1
    /\ Feed(ir, now + samplePeriod)

\* the pulse: the IR value goes to the other contact level
FeedPulse(maxFed) ==
  /\ fed < maxFed
  /\ envIr \in {IrLow, IrHigh}
  /\ Feed(IF envIr = IrLow THEN IrHigh ELSE IrLow, now + samplePeriod)
  /\ UNCHANGED switches

\* the sensor value goes round three levels: low contact level, high contact
\* level, no contact
FeedCycle(maxFed) ==
  /\ fed < maxFed
  /\ Feed(IF envIr = IrLow THEN IrHigh ELSE IF envIr = IrHigh THEN IrNone ELSE IrLow,
          now + samplePeriod)
  /\ UNCHANGED switches

\* the caller calls calculate()
CalculateCall ==
  /\ calc' = calculate(calc, now)
  /\ lastCall' = "calculate"
  /\ UNCHANGED <<now, samplePeriod, envIr, switches, fed, runLen, redLevels, fedLog,
                 runStartCount, runStartPresent, runAfterNonQual,
                 peakSinceContact, hadLoss, ecgVars, filterVars, loopVars, windowVars, waveletVars>>

\* main.cpp: what the PPG globals and processPPG's statics hold at start-up
\* (zero-initialised globals and statics; setup() calls ppgFilter.init, the
\* constructor of ppgWavelet resets it)
bufferLength == 100

PpgStart ==
  [ lastPPGSample |-> 0,
    rawPPG_IR |-> 0,
    ppgFilter |-> SignalFilterReset,
    ppgWavelet |-> WaveletReset,
    filteredPPG |-> Zero,
    waveletPPG |-> Zero,
    fingerDetected |-> FALSE,
    noFingerCount |-> 0,
    sampleCount |-> 0,
    isCollecting |-> FALSE,
    redBuffer |-> [i \in 0..(bufferLength - 1) |-> 0],
    irBuffer |-> [i \in 0..(bufferLength - 1) |-> 0],
    spo2Value |-> 0,
    validSPO2 |-> 0,
    heartRateValue |-> 0,
    validHeartRate |-> 0,
    filteredHeartRate |-> 0,
    filteredSpO2 |-> 0 ]

\* the channels of the main loop
Channels == {"ecg", "ppg", "audio"}

\* main.cpp after setup() with the given outcome of particleSensor.begin and
\* microphone.begin; no iteration of loop() made yet
LoopStartWith(ppgOk, micOk, delivers) ==
  /\ max30102Initialized = ppgOk
  /\ micInitialized = micOk
  /\ i2sDelivers = delivers
  /\ ppg = PpgStart
  /\ rawAudio = 0
  /\ audioOutputCounter = 0
  /\ outputCounter = 0
  /\ lastDisplayTime = 0
  /\ micros = 0
  /\ loops = 0
  /\ taken = [ppg |-> 0, audio |-> 0]
  /\ atTurn = [c \in Channels |-> [ecg |-> 0, ppg |-> 0, audio |-> 0]]
  /\ ppgLog = <<>>
  /\ ppgCall = [branch |-> "none", red |-> 0, ir |-> 0, index |-> -1]
  /\ lowRun = 0
  /\ fingerPhase = "on"

\* the PPG sensor and the microphone absent, the loop not run
LoopIdle == LoopStartWith(FALSE, FALSE, FALSE)

\* WaveletDenoiser(): reset()
WAVELET_BUFFER_SIZE == 128

WaveletDenoiserReset ==
  [ buffer |-> [i \in 0..(WAVELET_BUFFER_SIZE - 1) |-> Zero],
    denoisedBuffer |-> [i \in 0..(WAVELET_BUFFER_SIZE - 1) |-> Zero],
    bufferIndex |-> 0,
    samplesCollected |-> 0,
    outputIndex |-> 0,
    bufferReady |-> FALSE ]

\* a WaveletDenoiser just constructed, no call made on it
DenoiserIdle ==
  /\ denoiser = WaveletDenoiserReset
  /\ added = 0
  /\ sampleLog = <<>>
  /\ passes = <<>>

\* no block handed to the Haar transform pair
HaarIdle ==
  /\ haarIn = <<>>
  /\ haarOut = <<>>
  /\ haarOp = "none"
  /\ haarThresholds = <<>>

\* main.cpp after setup(): filters initialised, no ECG sample yet, the main
\* loop about to call processECG
EcgStart ==
  /\ rawECG = [val |-> 0, seq |-> 0]
  /\ ecgSampleReady = FALSE
  /\ ecgFilter = SignalFilterReset
  /\ ecgWavelet = WaveletReset
  /\ filteredECG = Zero
  /\ waveletECG = Zero
  /\ pc = "test"
  /\ produced = 0
  /\ clearedSeq = 0
  /\ processed = <<>>
  /\ leadOffSince = FALSE
  /\ cleared = 0

\* the audio filter after init(), no process() call made
FilterStart ==
  /\ audioFilter = AudioFilterReset
  /\ filteredAudio = Zero
  /\ filterCalls = 0
  /\ lastIn = Zero
  /\ lastCascade = Zero
  /\ lastFilter = "none"
  /\ blownUp = FALSE

\* SpO2Calculator constructed and init() called, no sample yet
SpO2Idle ==
  /\ calc = SpO2Init(SpO2Constructed)
  /\ now = 0
  /\ samplePeriod = 10
  /\ envIr = IrNone
  /\ switches = 0
  /\ fed = 0
  /\ runLen = 0
  /\ runStartCount = 0
  /\ runStartPresent = FALSE
  /\ runAfterNonQual = FALSE
  /\ peakSinceContact = FALSE
  /\ hadLoss = FALSE
  /\ lastCall = "init"
  /\ redLevels = [lo |-> RedLow, hi |-> RedHigh]
  /\ fedLog = <<>>

\* the state after construction and init(), before the first sample; the
\* red values that go with the two contact levels are one of profiles
SpO2StartWith(periods, levels, profiles) ==
  /\ EcgStart
  /\ FilterStart
  /\ LoopIdle
  /\ DenoiserIdle
  /\ HaarIdle
  /\ calc = SpO2Init(SpO2Constructed)
  /\ now = 0
  /\ samplePeriod \in periods
  /\ envIr \in levels
  /\ switches = 0
  /\ fed = 0
  /\ runLen = 0
  /\ runStartCount = 0
  /\ runStartPresent = FALSE
  /\ runAfterNonQual = FALSE
  /\ peakSinceContact = FALSE
  /\ hadLoss = FALSE
  /\ lastCall = "init"
  /\ redLevels \in profiles
  /\ fedLog = <<>>

\* the state after construction and init(), before the first sample
SpO2Start(periods, levels) ==
  SpO2StartWith(periods, levels, {[lo |-> RedLow, hi |-> RedHigh]})

(***************************************************************************)
(* SpecFinger: every sequence of addSample calls whose IR values sit at    *)
(* one edge of the contact band (just outside and just inside             *)
(* FINGER_THRESHOLD_LOW, or just inside and just outside                  *)
(* FINGER_THRESHOLD_HIGH), with at most MaxSwitches changes between        *)
(* contact and no contact.                                                 *)
(***************************************************************************)
FingerLevels == {FINGER_THRESHOLD_LOW, FINGER_THRESHOLD_LOW + 1,
                 FINGER_THRESHOLD_HIGH - 1, FINGER_THRESHOLD_HIGH}

\* the IR value across the edge from ir
AcrossEdge(ir) ==
  IF ir = FINGER_THRESHOLD_LOW THEN FINGER_THRESHOLD_LOW + 1
  ELSE IF ir = FINGER_THRESHOLD_LOW + 1 THEN FINGER_THRESHOLD_LOW
  ELSE IF ir = FINGER_THRESHOLD_HIGH THEN FINGER_THRESHOLD_HIGH - 1
  ELSE FINGER_THRESHOLD_HIGH

InitFinger == SpO2Start({10}, FingerLevels)

NextFinger ==
  \/ FeedHold(MaxSamples)
  \/ FeedSwitch({AcrossEdge(envIr)}, MaxSamples, MaxSwitches)

SpecFinger == InitFinger /\ [][NextFinger]_vars

InitSpO2 == SpO2Start({10, 200}, {IrNone, IrHigh})

NextSpO2 ==
  \/ FeedIdle(MaxCalcSamples)
  \/ FeedPulse(MaxCalcSamples)
  \/ FeedSwitch({IrNone, IrHigh}, MaxCalcSamples, MaxCalcSwitches)
  \/ CalculateCall

SpecSpO2 == InitSpO2 /\ [][NextSpO2]_vars

\* C2 (as claimed): filteredHeartRate and filteredSpO2 change only in a step
\* where fingerPresent is true and sampleCount >= SPO2_MIN_SAMPLES.
C2_UpdatesGatedByMinSamples ==
  [][(calc'.filteredHeartRate # calc.filteredHeartRate
        \/ calc'.filteredSpO2 # calc.filteredSpO2)
      => (calc'.fingerPresent /\ calc'.sampleCount >= SPO2_MIN_SAMPLES)]_vars

\* C2 (amended): filteredSpO2 changes only in a calculate call made with
\* fingerPresent true and sampleCount >= SPO2_MIN_SAMPLES; filteredHeartRate
\* changes only in an addSample call that starts and ends with fingerPresent
\* true, which implies sampleCount > FINGER_STABLE_COUNT but not
\* sampleCount >= SPO2_MIN_SAMPLES.
C2_UpdatesGated ==
  [][/\ calc'.filteredSpO2 # calc.filteredSpO2
          => /\ lastCall' = "calculate"
             /\ calc.fingerPresent
             /\ calc.sampleCount >= SPO2_MIN_SAMPLES
     /\ calc'.filteredHeartRate # calc.filteredHeartRate
          => /\ lastCall' = "addSample"
             /\ calc.fingerPresent
             /\ calc'.fingerPresent
             /\ calc'.sampleCount > FINGER_STABLE_COUNT]_vars

\* C2 witness: both smoothed values have been updated
C2_Witness ==
  /\ calc.filteredHeartRate # 75 * FP
  /\ calc.filteredSpO2 # 98 * FP
  /\ calc.fingerPresent

(***************************************************************************)
(* SpecContact: addSample calls every 10 ms; the sensor starts in contact  *)
(* (pulse) and contact is lost and made again at most MaxGapSwitches       *)
(* times.                                                                  *)
(***************************************************************************)
InitContact == SpO2Start({10}, {IrHigh})

NextContact ==
  \/ FeedIdle(MaxGapSamples)
  \/ FeedPulse(MaxGapSamples)
  \/ FeedSwitch({IrNone, IrHigh}, MaxGapSamples, MaxGapSwitches)

SpecContact == InitContact /\ [][NextContact]_vars

\* C9 (as claimed): once fingerPresent has gone from true to false and back
\* to true, filteredHeartRate is never updated from an interval whose start
\* (lastPeakTime) is a peak declared before contact was re-established.
C9_NoIntervalAcrossGap ==
  [][(hadLoss /\ calc'.filteredHeartRate # calc.filteredHeartRate)
      => peakSinceContact]_vars

(***************************************************************************)
(* SpecHR: finger in contact, a pulse of period T = 2 * samplePeriod: the  *)
(* IR value alternates between IrHigh and IrLow, so that once presence is  *)
(* asserted detectPeak declares a peak exactly every T ms.                 *)
(***************************************************************************)
\* addSample calls in a run
MaxBeatSamples == 100
\* accepted estimates after which 0.85^n * (200 - 75) is below the tolerance
HrSettleBeats == 30
\* tolerance of the converged estimate, bpm
HrTolerance == 1

\* the peak periods T (ms) of the runs
PeakPeriods == {300, 400, 500, 520, 600, 800, 1000, 1200, 1498, 1500}

InitHR == SpO2Start({T \div 2 : T \in PeakPeriods}, {IrHigh})

NextHR == FeedPulse(MaxBeatSamples)

SpecHR == InitHR /\ [][NextHR]_vars

\* peaks declared so far: presence is asserted by sample FINGER_STABLE_COUNT + 1
\* (a low sample) and from then on every low sample declares the peak before it
PeaksDeclared ==
  IF fed <= FINGER_STABLE_COUNT + 1 THEN 0
  ELSE (fed - FINGER_STABLE_COUNT - 1) \div 2

\* PeaksDeclared counts the steps that set lastPeakTime, and the peaks are
\* exactly 2 * samplePeriod apart
PeaksEveryPeriod ==
  [][/\ calc'.lastPeakTime # calc.lastPeakTime
          <=> PeaksDeclared' = PeaksDeclared + 1
     /\ (calc'.lastPeakTime # calc.lastPeakTime /\ calc.lastPeakTime > 0)
          => calc'.lastPeakTime - calc.lastPeakTime = 2 * samplePeriod]_vars

\* C8 (as claimed): for every peak period T in [300, 1500] ms the smoothed
\* heart rate converges to 60000 / T: once HrSettleBeats intervals have been
\* measured it is within HrTolerance of 60000 / T.
C8_ConvergesToRate ==
  PeaksDeclared > HrSettleBeats
    => Abs(calc.filteredHeartRate - (60000 * FP) \div (2 * samplePeriod))
         <= HrTolerance * FP

(***************************************************************************)
(* The ECG channel of main.cpp: the timer interrupt onEcgTimer and the     *)
(* main loop's processECG.  The interrupt runs to completion and can fire  *)
(* between any two statements of the main loop; the code has no critical   *)
(* section.  ecgTimestamp is written by the interrupt and never read, and  *)
(* the Serial output is not part of the state.                             *)
(***************************************************************************)
\* samples the interrupt produces in a run
MaxEcgSamples == 4
\* what analogRead returns (12 bits)
AdcValues == {0, 4095}

\* mutant of the interrupt's store: a full store keeps its sample
IsrStoreKeepOld(cur, ready, sample) ==
  [rawECG |-> IF ready THEN cur ELSE sample, ecgSampleReady |-> TRUE]

\* onEcgTimer's two assignments: rawECG = analogRead(...), ecgSampleReady = true
IsrStore(cur, ready, sample) ==
  [rawECG |-> sample, ecgSampleReady |-> TRUE]

\* onEcgTimer(): analogRead returns v
onEcgTimer ==
  \E v \in AdcValues :
    /\ produced < MaxEcgSamples
    /\ produced' = produced + 1
    /\ rawECG' = IsrStore(rawECG, ecgSampleReady,
                          [val |-> v, seq |-> produced + 1]).rawECG
    /\ ecgSampleReady' = IsrStore(rawECG, ecgSampleReady,
                                  [val |-> v, seq |-> produced + 1]).ecgSampleReady
    /\ UNCHANGED <<cleared, ecgFilter, ecgWavelet, filteredECG, waveletECG, pc,
                   clearedSeq, processed, leadOffSince, spo2Vars, filterVars, loopVars, windowVars, waveletVars>>

\* processECG: if (!ecgSampleReady) return;
EcgTest ==
  /\ pc = "test"
  /\ pc' = IF ecgSampleReady THEN "clear" ELSE "rest"
  /\ UNCHANGED <<cleared, rawECG, ecgSampleReady, ecgFilter, ecgWavelet, filteredECG,
                 waveletECG, produced, clearedSeq, processed, leadOffSince,
                 spo2Vars, filterVars, loopVars, windowVars, waveletVars>>

\* processECG: ecgSampleReady = false;
EcgClear ==
  /\ pc = "clear"
  /\ ecgSampleReady' = FALSE
  /\ clearedSeq' = rawECG.seq
  /\ cleared' = cleared + 1
  /\ pc' = "pins"
  /\ UNCHANGED <<rawECG, ecgFilter, ecgWavelet, filteredECG, waveletECG,
                 produced, processed, leadOffSince, spo2Vars, filterVars, loopVars, windowVars, waveletVars>>

\* processECG: the two digitalRead of the lead-off pins and the return on
\* lead-off
EcgPins ==
  \E loPlus \in BOOLEAN, loMinus \in BOOLEAN :
    /\ pc = "pins"
    /\ pc' = IF loPlus \/ loMinus THEN "rest" ELSE "filter"
    /\ leadOffSince' = IF loPlus \/ loMinus THEN TRUE ELSE leadOffSince
    /\ UNCHANGED <<cleared, rawECG, ecgSampleReady, ecgFilter, ecgWavelet, filteredECG,
                   waveletECG, produced, clearedSeq, processed,
                   spo2Vars, filterVars, loopVars, windowVars, waveletVars>>

\* processECG: rawFloat = (float)rawECG; filteredECG = ecgFilter.process(rawFloat);
\* waveletECG = ecgWavelet.process(filteredECG);
EcgFilter ==
  /\ pc = "filter"
  /\ filteredECG' = SignalOut(ecgFilter, Fin(rawECG.val))
  /\ ecgFilter' = SignalNext(ecgFilter, Fin(rawECG.val))
  /\ waveletECG' = WaveletOut(ecgWavelet, filteredECG')
  /\ ecgWavelet' = WaveletNext(ecgWavelet, filteredECG')
  /\ processed' = Append(processed, rawECG.seq)
  /\ leadOffSince' = FALSE
  /\ pc' = "rest"
  /\ UNCHANGED <<cleared, rawECG, ecgSampleReady, produced, clearedSeq,
                 spo2Vars, filterVars, loopVars, windowVars, waveletVars>>

\* loop(): the rest of the iteration, then processECG again
LoopRest ==
  /\ pc = "rest"
  /\ pc' = "test"
  /\ UNCHANGED <<cleared, rawECG, ecgSampleReady, ecgFilter, ecgWavelet, filteredECG,
                 waveletECG, produced, clearedSeq, processed, leadOffSince,
                 spo2Vars, filterVars, loopVars, windowVars, waveletVars>>

InitEcg == EcgStart /\ FilterStart /\ SpO2Idle /\ LoopIdle /\ DenoiserIdle /\ HaarIdle

NextEcg ==
  \/ onEcgTimer
  \/ EcgTest
  \/ EcgClear
  \/ EcgPins
  \/ EcgFilter
  \/ LoopRest

SpecEcg == InitEcg /\ [][NextEcg]_vars

\* the production numbers in seq grow strictly
StrictlyIncreasing(seq) ==
  \A i \in 1..Len(seq) : \A j \in 1..Len(seq) : i < j => seq[i] < seq[j]

\* C3: under every interleaving of onEcgTimer with processECG, the samples
\* processECG filters are a subsequence of the samples produced: each is a
\* produced sample, they are filtered in production order, and no produced
\* sample is filtered more than once.
C3_ProcessedIsSubsequence ==
  /\ \A i \in 1..Len(processed) : processed[i] \in 1..produced
  /\ StrictlyIncreasing(processed)

C5_InterruptExcluded ==
  [][ /\ produced' # produced => pc \notin {"clear", "pins", "filter"}
      /\ (pc = "filter" /\ pc' = "rest") => rawECG.seq = clearedSeq ]_vars

\* C10: a processECG call that detects lead-off leaves ecgFilter and
\* ecgWavelet in their reset state, and the first sample filtered after
\* lead-off gives the outputs a reset filter and a reset denoiser give.
C10_LeadOffResets ==
  [][ /\ (pc = "pins" /\ pc' = "rest") =>
           /\ ecgFilter' = SignalFilterReset
           /\ ecgWavelet' = WaveletReset
      /\ (pc = "filter" /\ pc' = "rest" /\ leadOffSince) =>
           /\ filteredECG' = SignalOut(SignalFilterReset, Fin(rawECG.val))
           /\ waveletECG' = WaveletOut(WaveletReset, filteredECG') ]_vars

(***************************************************************************)
(* SignalFilter and AudioFilter under direct process() calls with any      *)
(* float input.  reset() and init() are not called after the start.       *)
(***************************************************************************)
\* process() calls made while the delay lines are all finite
MaxFilterCalls == 4
\* an ordinary input magnitude
SmallInput == 1000

FiniteInputs == {Zero, Fin(SmallInput), Fin(FloatMax), Fin(-FloatMax)}
FilterInputs == FiniteInputs \cup {NaN, PInf, NInf}

\* some delay register of the BiquadState is NaN or an infinity
BiquadPoisoned(st) ==
  NonFinite(st.x1) \/ NonFinite(st.x2) \/ NonFinite(st.y1) \/ NonFinite(st.y2)

\* some delay register of the SignalFilter is NaN or an infinity
Poisoned(f) ==
  \/ NonFinite(f.dc_x1) \/ NonFinite(f.dc_y1)
  \/ BiquadPoisoned(f.notch50_state) \/ BiquadPoisoned(f.notch100_state)
  \/ BiquadPoisoned(f.hp_state) \/ BiquadPoisoned(f.lp_state)

\* some delay register of the AudioFilter is NaN or an infinity
AudioPoisoned(f) ==
  NonFinite(f.dc_x1) \/ NonFinite(f.dc_y1) \/ BiquadPoisoned(f.hp_state)

\* y = signalFilter.process(x), with the history of the call
SignalCall(x) ==
  /\ filteredECG' = SignalOut(ecgFilter, x)
  /\ ecgFilter' = SignalNext(ecgFilter, x)
  /\ lastFilter' = "signal"
  /\ lastIn' = x
  /\ lastCascade' = IF NonFinite(x) THEN Zero ELSE CascadeOut(ecgFilter, x)
  /\ blownUp' = (blownUp \/ (~NonFinite(x) /\ NonFinite(CascadeOut(ecgFilter, x))))
  /\ UNCHANGED <<cleared, audioFilter, filteredAudio, rawECG, ecgSampleReady, ecgWavelet,
                 waveletECG, pc, produced, clearedSeq, processed, leadOffSince,
                 spo2Vars, loopVars, windowVars, waveletVars>>

\* a process() call on the SignalFilter with a finite input
SignalProcessFinite ==
  \E x \in FiniteInputs :
    /\ filterCalls < MaxFilterCalls
    /\ filterCalls' = filterCalls + 1
    /\ SignalCall(x)

\* a process() call on the SignalFilter with NaN or an infinity
SignalProcessNonFinite ==
  \E x \in {NaN, PInf, NInf} :
    /\ filterCalls < MaxFilterCalls
    /\ filterCalls' = filterCalls + 1
    /\ SignalCall(x)

\* y = audioFilter.process(x)
AudioProcess ==
  \E x \in FilterInputs :
    /\ filterCalls < MaxFilterCalls
    /\ filterCalls' = filterCalls + 1
    /\ filteredAudio' = AudioOut(audioFilter, x)
    /\ audioFilter' = AudioNext(audioFilter, x)
    /\ lastFilter' = "audio"
    /\ lastIn' = x
    /\ lastCascade' = IF NonFinite(x) THEN Zero ELSE AudioCascadeOut(audioFilter, x)
    /\ UNCHANGED <<blownUp, ecgVars, spo2Vars, loopVars, windowVars, waveletVars>>

InitFilter == EcgStart /\ FilterStart /\ SpO2Idle /\ LoopIdle /\ DenoiserIdle /\ HaarIdle

NextFilter ==
  \/ SignalProcessFinite
  \/ SignalProcessNonFinite
  \/ AudioProcess

SpecFilter == InitFilter /\ [][NextFilter]_vars

(***************************************************************************)
(* A SignalFilter whose caller never stops: ordinary samples, one swing    *)
(* from +FloatMax to -FloatMax (which overflows the DC blocker), then      *)
(* ordinary samples for ever.  Before the swing the calls are counted;     *)
(* after it the delay lines run through finitely many values.             *)
(***************************************************************************)
\* ordinary process() calls before the swing
MaxOrdinaryCalls == 6

OrdinaryInputs == {Zero, Fin(SmallInput)}

\* process(x) with an ordinary sample
OrdinaryCall ==
  \E x \in OrdinaryInputs :
    /\ lastIn # Fin(FloatMax)
    /\ filterCalls < MaxOrdinaryCalls \/ NonFinite(ecgFilter.dc_y1)
    /\ filterCalls' = IF NonFinite(ecgFilter.dc_y1) THEN filterCalls
                      ELSE filterCalls + 1
    /\ SignalCall(x)

\* process(+FloatMax) on finite delay lines
SwingUp ==
  /\ ~Poisoned(ecgFilter)
  /\ lastIn # Fin(FloatMax)
  /\ UNCHANGED filterCalls
  /\ SignalCall(Fin(FloatMax))

\* process(-FloatMax) right after process(+FloatMax)
SwingDown ==
  /\ lastIn = Fin(FloatMax)
  /\ UNCHANGED filterCalls
  /\ SignalCall(Fin(-FloatMax))

NextBlowUp ==
  \/ OrdinaryCall
  \/ SwingUp
  \/ SwingDown

\* the caller keeps calling process() with finite inputs
SpecBlowUp ==
  /\ InitFilter
  /\ [][NextBlowUp]_vars
  /\ WF_vars(OrdinaryCall)
  /\ WF_vars(SwingDown)

\* C6: what SignalFilter::process and AudioFilter::process return is never
\* NaN or an infinity, whatever the input and the delay lines, and it is 0
\* whenever the input or the cascade output of the call is non-finite.
C6_OutputAlwaysFinite ==
  /\ ~NonFinite(filteredECG)
  /\ ~NonFinite(filteredAudio)
  /\ (lastFilter = "signal" /\ (NonFinite(lastIn) \/ NonFinite(lastCascade)))
       => filteredECG = Zero
  /\ (lastFilter = "audio" /\ (NonFinite(lastIn) \/ NonFinite(lastCascade)))
       => filteredAudio = Zero

\* C6 witness: a SignalFilter call with a finite input, made on delay lines
\* that already held a non-finite value (y2 of the first biquad is the y1 of
\* the call before), whose cascade output was non-finite and was replaced by 0
C6_Witness ==
  /\ lastFilter = "signal"
  /\ ~NonFinite(lastIn)
  /\ NonFinite(lastCascade)
  /\ NonFinite(ecgFilter.notch50_state.y2)
  /\ filteredECG = Zero

\* the last SignalFilter call had a finite input and a non-finite cascade
\* output, replaced by 0
Substituted ==
  lastFilter = "signal" /\ ~NonFinite(lastIn) /\ NonFinite(lastCascade)

\* the last SignalFilter call had a finite input and returned the cascade's
\* output
Ordinary ==
  lastFilter = "signal" /\ ~NonFinite(lastIn) /\ ~NonFinite(lastCascade)

\* C7: after a process call whose cascade output was non-finite and was
\* replaced by 0, calls with finite inputs eventually return the cascade's
\* ordinary output again, with no reset() and no init().
C7_RecoversWithoutReset == Substituted ~> Ordinary

\* once a delay register of the SignalFilter is non-finite, process() leaves
\* one non-finite and every call with a finite input is answered by the
\* substituted 0
PoisonStays ==
  [][Poisoned(ecgFilter) =>
       /\ Poisoned(ecgFilter')
       /\ lastFilter' = "signal" => filteredECG' = Zero]_vars

(***************************************************************************)
(* SpecDecay: contact long enough for the counter to pass                  *)
(* FINGER_STABLE_COUNT, then no contact long enough for it to come back.   *)
(***************************************************************************)
MaxDecaySamples == 70
MaxDecaySwitches == 1

InitDecay == SpO2Start({10}, {IrHigh})

NextDecay ==
  \/ FeedIdle(MaxDecaySamples)
  \/ FeedPulse(MaxDecaySamples)
  \/ FeedSwitch({IrNone, IrHigh}, MaxDecaySamples, MaxDecaySwitches)

SpecDecay == InitDecay /\ [][NextDecay]_vars

\* C20: stableFingerCount >= 0, fingerPresent implies stableFingerCount >= 1,
\* no presence implies stableFingerCount <= FINGER_STABLE_COUNT; a qualifying
\* sample adds one to the counter without a cap, a non-qualifying sample
\* takes one off (not below 0), and presence is cleared exactly when the
\* counter comes back to 0.
C20_FingerDecay ==
  /\ [](/\ calc.stableFingerCount >= 0
        /\ calc.fingerPresent => calc.stableFingerCount >= 1
        /\ ~calc.fingerPresent => calc.stableFingerCount <= FINGER_STABLE_COUNT)
  /\ [][fed' # fed =>
          /\ Qualifies(envIr') =>
               calc'.stableFingerCount = calc.stableFingerCount + 1
          /\ ~Qualifies(envIr') =>
               calc'.stableFingerCount =
                 (IF calc.stableFingerCount > 0 THEN calc.stableFingerCount - 1
                  ELSE 0)
          /\ calc.fingerPresent =>
               (~calc'.fingerPresent <=> calc'.stableFingerCount = 0)]_vars

\* C20 witness: the counter went up to 33 in 33 contact samples, and presence
\* was cleared by the 33rd sample without contact, not before
C20_Witness ==
  /\ fed = 66
  /\ switches = 1
  /\ hadLoss
  /\ ~calc.fingerPresent
  /\ calc.stableFingerCount = 0

\* C16: a calculate() call that recomputes is at least SPO2_UPDATE_INTERVAL
\* ms after the recomputation before it (lastUpdateTime is the time of that
\* recomputation), and a call made while fingerPresent is false or
\* sampleCount < SPO2_MIN_SAMPLES changes no field, lastUpdateTime included.
C16_RateLimitedAndGated ==
  [][(fed' = fed /\ lastCall' = "calculate") =>
       /\ (~calc.fingerPresent \/ calc.sampleCount < SPO2_MIN_SAMPLES)
            => calc' = calc
       /\ calc' # calc =>
            /\ now - calc.lastUpdateTime >= SPO2_UPDATE_INTERVAL
            /\ calc'.lastUpdateTime = now]_vars

\* C16 witness: a recomputation was made, and a call less than
\* SPO2_UPDATE_INTERVAL ms after it, past the gate, was refused
C16_Witness ==
  /\ lastCall = "calculate"
  /\ calc.fingerPresent
  /\ calc.sampleCount >= SPO2_MIN_SAMPLES
  /\ calc.lastUpdateTime > 0
  /\ now > calc.lastUpdateTime
  /\ now - calc.lastUpdateTime < SPO2_UPDATE_INTERVAL

(***************************************************************************)
(* SpecClamp: a pulse on both channels, the red channel's swing being one  *)
(* of several, so that 110 - 25 R falls above 100, inside [85, 100],       *)
(* between 70 and 85, and below 70; calculate() called at any time.        *)
(***************************************************************************)
MaxClampSamples == 54

RedProfiles ==
  { [lo |-> RedLow, hi |-> RedHigh],
    [lo |-> 30000, hi |-> 30000],
    [lo |-> 20000, hi |-> 40000],
    [lo |-> 18000, hi |-> 42000],
    [lo |-> 10000, hi |-> 50000] }

InitClamp == SpO2StartWith({200}, {IrLow, IrHigh}, RedProfiles)

NextClamp ==
  \/ FeedPulse(MaxClampSamples)
  \/ CalculateCall

SpecClamp == InitClamp /\ [][NextClamp]_vars

\* 110 - 25 R of the last recomputation, from the DC and AC values it stored
LastEstimate(s) == RawSpO2(s.redAC, s.redDC, s.irAC, s.irDC)

\* C12: in a calculate() call that recomputes and gets past the DC/AC tests,
\* the estimate 110 - 25 R is clamped to [70, 100]; when the clamped value
\* is in [85, 100] it becomes currentSpO2 and is folded into filteredSpO2;
\* when it is below 85 both stay as they were.
C12_ClampAndBand ==
  [][(fed' = fed /\ calc'.lastUpdateTime # calc.lastUpdateTime
        /\ calc'.irDC >= 1 /\ calc'.redDC >= 1 /\ calc'.irAC >= 1) =>
       LET raw == LastEstimate(calc')
           est == IF raw > 100 * FP THEN 100 * FP
                  ELSE IF raw < 70 * FP THEN 70 * FP ELSE raw
       IN /\ est >= 85 * FP =>
               /\ calc'.currentSpO2 = est
               /\ calc'.filteredSpO2 =
                    (calc.filteredSpO2 * (100 - SPO2_SMOOTHING_PCT)
                     + est * SPO2_SMOOTHING_PCT) \div 100
          /\ est < 85 * FP =>
               /\ calc'.currentSpO2 = calc.currentSpO2
               /\ calc'.filteredSpO2 = calc.filteredSpO2]_vars

\* C12 witness: a recomputation whose estimate was below 70 left
\* filteredSpO2 and currentSpO2 at their initial values
C12_Witness ==
  /\ lastCall = "calculate"
  /\ calc.lastUpdateTime = now
  /\ now > 0
  /\ calc.irAC >= 1
  /\ LastEstimate(calc) < 70 * FP
  /\ calc.filteredSpO2 = 98 * FP
  /\ calc.currentSpO2 = 0

\* a recomputation whose estimate was above 100 made currentSpO2 100
ClampedHigh ==
  /\ lastCall = "calculate"
  /\ calc.lastUpdateTime = now
  /\ now > 0
  /\ LastEstimate(calc) > 100 * FP
  /\ calc.currentSpO2 = 100 * FP

\* C15: when detectPeak declares a peak whose interval and estimate are in
\* range: with peakCount >= 3 an estimate more than HR_MAX_CHANGE away from
\* filteredHeartRate leaves filteredHeartRate, currentHeartRate and peakCount
\* as they were; with peakCount < 3 the estimate is folded in whatever its
\* distance.
C15_OutlierRule ==
  [][(fed' # fed /\ calc'.lastPeakTime # calc.lastPeakTime
        /\ calc.lastPeakTime > 0
        /\ now' - calc.lastPeakTime > 300 /\ now' - calc.lastPeakTime < 1500) =>
       LET hr == (60000 * FP) \div (now' - calc.lastPeakTime)
           far == hr - calc.filteredHeartRate > HR_MAX_CHANGE * FP
                  \/ calc.filteredHeartRate - hr > HR_MAX_CHANGE * FP
       IN (hr >= 40 * FP /\ hr <= 180 * FP) =>
            /\ (calc.peakCount >= 3 /\ far) =>
                 /\ calc'.filteredHeartRate = calc.filteredHeartRate
                 /\ calc'.currentHeartRate = calc.currentHeartRate
                 /\ calc'.peakCount = calc.peakCount
            /\ calc.peakCount < 3 =>
                 /\ calc'.currentHeartRate = hr
                 /\ calc'.filteredHeartRate =
                      (calc.filteredHeartRate * (100 - HR_SMOOTHING_PCT)
                       + hr * HR_SMOOTHING_PCT) \div 100
                 /\ calc'.peakCount = calc.peakCount + 1]_vars

\* C15 witness: peaks 400 ms apart (150 bpm); three estimates were folded in
\* from 75 bpm although 75 bpm away, and the later ones, still more than
\* HR_MAX_CHANGE away, were refused
C15_Witness ==
  /\ samplePeriod = 200
  /\ fed >= 60
  /\ calc.peakCount = 3
  /\ calc.filteredHeartRate > 75 * FP
  /\ 150 * FP - calc.filteredHeartRate > HR_MAX_CHANGE * FP

(***************************************************************************)
(* SpecRing: more than SPO2_BUFFER_SIZE addSample calls after init(); the  *)
(* sensor value goes round three levels, so that the pair a wraparound     *)
(* overwrites differs from the pair written over it.                       *)
(***************************************************************************)
\* addSample calls per run
MaxRingSamples == 205

InitRing == SpO2StartWith({10}, {IrLow, IrHigh, IrNone}, RedProfiles)

NextRing == FeedCycle(MaxRingSamples)

SpecRing == InitRing /\ [][NextRing]_vars

\* C18: after k = fed addSample calls since init(), bufferIndex = k mod
\* SPO2_BUFFER_SIZE inside 0 .. SPO2_BUFFER_SIZE - 1, sampleCount =
\* min(k, SPO2_BUFFER_SIZE), and the j-th most recent call's red and IR value
\* sit at the same index (k - j) mod SPO2_BUFFER_SIZE of redBuffer and
\* irBuffer, for every j up to min(k, SPO2_BUFFER_SIZE).
C18_RingBuffers ==
  /\ calc.bufferIndex = fed % SPO2_BUFFER_SIZE
  /\ calc.bufferIndex >= 0 /\ calc.bufferIndex < SPO2_BUFFER_SIZE
  /\ calc.sampleCount = (IF fed < SPO2_BUFFER_SIZE THEN fed ELSE SPO2_BUFFER_SIZE)
  /\ Len(fedLog) = fed
  /\ \A j \in 1..(IF fed < SPO2_BUFFER_SIZE THEN fed ELSE SPO2_BUFFER_SIZE) :
       /\ calc.redBuffer[(fed - j) % SPO2_BUFFER_SIZE] = fedLog[fed - j + 1][1]
       /\ calc.irBuffer[(fed - j) % SPO2_BUFFER_SIZE] = fedLog[fed - j + 1][2]

\* C18 witness: the buffers wrapped round and the oldest pair was overwritten
\* by a different one
C18_Witness ==
  /\ fed = SPO2_BUFFER_SIZE + 3
  /\ calc.bufferIndex = 3
  /\ calc.irBuffer[0] # fedLog[1][2]
  /\ calc.irBuffer[0] = fedLog[SPO2_BUFFER_SIZE + 1][2]
  /\ calc.redBuffer[0] = fedLog[SPO2_BUFFER_SIZE + 1][1]

(***************************************************************************)
(* SpecEndToEnd: after init(), addSample every 10 ms with the IR value     *)
(* alternating between IrLow (20000) and IrTop (80000).                    *)
(***************************************************************************)
\* the upper IR value of the alternation
IrTop == 80000

\* addSample calls of the run
EndToEndSamples == 200

\* float getHeartRate() const
getHeartRate(s) == s.filteredHeartRate

\* the IR value goes to the other value of the alternation
FeedAlternate(maxFed) ==
  /\ fed < maxFed
  /\ envIr \in {IrLow, IrTop}
  /\ Feed(IF envIr = IrLow THEN IrTop ELSE IrLow, now + samplePeriod)
  /\ UNCHANGED switches

InitEndToEnd == SpO2Start({10}, {IrLow, IrTop})

NextEndToEnd == FeedAlternate(EndToEndSamples)

SpecEndToEnd == InitEndToEnd /\ [][NextEndToEnd]_vars

\* C14: after the 200 alternating samples getHeartRate() is within 5 bpm of 60
C14_EndToEndHeartRate ==
  (fed = EndToEndSamples) =>
     /\ getHeartRate(calc) >= (60 - 5) * FP
     /\ getHeartRate(calc) <= (60 + 5) * FP

(***************************************************************************)
(* main.cpp: loop() as a whole.  One iteration calls processECG,           *)
(* processPPG, processAudio and displayValues in this order and then       *)
(* counts outputCounter up.  processECG is the steps EcgTest .. EcgFilter   *)
(* above (the timer interrupt can fire between any two of them); pc =      *)
(* "rest" is the return of processECG, where processPPG is called next.    *)
(* maxim_heart_rate_and_oxygen_saturation is not part of the sources: its  *)
(* four results are inputs.                                                *)
(***************************************************************************)
PPG_SAMPLE_INTERVAL_US == 1000
DISPLAY_INTERVAL_MS == 1000

\* iterations of loop() per run
MaxLoops == 2

\* what the I2S driver hands to readSample (32-bit frames)
I2sWords == {1000 * 65536}

\* what particleSensor.getIR() returns: a finger is on the sensor
PpgIrValues == {IrTop}

\* microseconds that pass between two reads of micros()
LoopDelays == {0, PPG_SAMPLE_INTERVAL_US}

\* results of maxim_heart_rate_and_oxygen_saturation: spo2, validSPO2,
\* heartRate, validHeartRate
MaximResults ==
  { [spo2 |-> -999, validSPO2 |-> 0, heartRate |-> -999, validHeartRate |-> 0],
    [spo2 |-> 98, validSPO2 |-> 1, heartRate |-> 60, validHeartRate |-> 1] }

\* mutant of processPPG's first test: the sensor is taken to be there
PpgEnabledAlways(initialized) == TRUE

\* processPPG: if (!max30102Initialized) return;
PpgEnabled(initialized) == initialized

\* processPPG: if (micros() - lastPPGSample < PPG_SAMPLE_INTERVAL_US) return;
PpgDue(p, t) == ~(t - p.lastPPGSample < PPG_SAMPLE_INTERVAL_US)

\* processPPG: lastPPGSample = micros(); rawPPG_IR = irValue; the filter and
\* the wavelet on (float)(irValue >> 4)
PpgWaveform(p, t, irValue) ==
  LET irFloat == Fin(irValue \div 16)
      f == SignalOut(p.ppgFilter, irFloat)
  IN [p EXCEPT !.lastPPGSample = t,
               !.rawPPG_IR = irValue,
               !.filteredPPG = f,
               !.ppgFilter = SignalNext(p.ppgFilter, irFloat),
               !.waveletPPG = WaveletOut(p.ppgWavelet, f),
               !.ppgWavelet = WaveletNext(p.ppgWavelet, f)]

\* processPPG: the branch irValue < 50000
PpgNoFinger(p) ==
  [p EXCEPT !.fingerDetected = FALSE,
            !.noFingerCount = p.noFingerCount + 1,
            !.isCollecting = IF p.noFingerCount + 1 > 10 THEN FALSE ELSE p.isCollecting,
            !.sampleCount = IF p.noFingerCount + 1 > 10 THEN 0 ELSE p.sampleCount]

\* mutant of the calculation branch: the windows are not shifted, the
\* count is set to 75 all the same
PpgCalculateNoShift(p, r) ==
  [p EXCEPT !.spo2Value = r.spo2,
            !.validSPO2 = r.validSPO2,
            !.heartRateValue = r.heartRate,
            !.validHeartRate = r.validHeartRate,
            !.sampleCount = 75]

\* processPPG: the call of maxim_heart_rate_and_oxygen_saturation with
\* results r, the two smoothed values, the shift of the windows by 25
PpgCalculate(p, r) ==
  [p EXCEPT !.spo2Value = r.spo2,
            !.validSPO2 = r.validSPO2,
            !.heartRateValue = r.heartRate,
            !.validHeartRate = r.validHeartRate,
            !.filteredHeartRate =
               IF r.validHeartRate = 1 /\ r.heartRate > 40 /\ r.heartRate < 200
               THEN (p.filteredHeartRate * 85 + r.heartRate * FP * 15) \div 100
               ELSE p.filteredHeartRate,
            !.filteredSpO2 =
               IF r.validSPO2 = 1 /\ r.spo2 > 70 /\ r.spo2 <= 100
               THEN (p.filteredSpO2 * 85 + r.spo2 * FP * 15) \div 100
               ELSE p.filteredSpO2,
            !.redBuffer = [i \in 0..(bufferLength - 1) |->
                             IF i < bufferLength - 25 THEN p.redBuffer[i + 25]
                             ELSE p.redBuffer[i]],
            !.irBuffer = [i \in 0..(bufferLength - 1) |->
                            IF i < bufferLength - 25 THEN p.irBuffer[i + 25]
                            ELSE p.irBuffer[i]],
            !.sampleCount = 75]

\* processPPG: the branch with a finger: the sample is collected, or, with
\* the windows full, the values are calculated
PpgCollect(p, redValue, irValue, r) ==
  LET q == [p EXCEPT !.fingerDetected = TRUE,
                     !.noFingerCount = 0,
                     !.sampleCount = IF p.isCollecting THEN p.sampleCount ELSE 0,
                     !.isCollecting = TRUE]
  IN IF q.sampleCount < bufferLength
     THEN [q EXCEPT !.redBuffer[q.sampleCount] = redValue,
                    !.irBuffer[q.sampleCount] = irValue,
                    !.sampleCount = q.sampleCount + 1]
     ELSE PpgCalculate(q, r)

\* processPPG reads a sensor value in this call
PpgTakes(initialized, p, t) == PpgEnabled(initialized) /\ PpgDue(p, t)

\* processPPG() as a function of the PPG state: micros() returns t, the
\* sensor returns irValue and redValue, the maxim function returns r
PpgStep(initialized, p, t, redValue, irValue, r) ==
  IF ~PpgTakes(initialized, p, t) THEN p
  ELSE LET w == PpgWaveform(p, t, irValue)
       IN IF irValue < 50000 THEN PpgNoFinger(w)
          ELSE PpgCollect(w, redValue, irValue, r)

\* INMP441::readSample with the driver handing over word
readSample(word) == word \div 65536

\* mutant of the order of loop(): after displayValues the iteration goes on
\* with processPPG
LoopAfterNoEcg(p) ==
  IF p = "rest" THEN "audio" ELSE IF p = "audio" THEN "display" ELSE "rest"

\* loop(): what is called after the call that ends at p
LoopAfter(p) ==
  IF p = "rest" THEN "audio" ELSE IF p = "audio" THEN "display" ELSE "test"

\* what the three channels have taken so far
TakenNow == [ecg |-> cleared, ppg |-> taken.ppg, audio |-> taken.audio]

\* loop(): processPPG(), the sensor returning one of irValues, one of delays
\* having passed since the last read of micros()
processPPG(irValues, delays) ==
  \E dt \in delays, irValue \in irValues, r \in MaximResults :
    /\ pc = "rest"
    /\ micros' = micros + dt
    /\ ppg' = PpgStep(max30102Initialized, ppg, micros + dt, RedOf(irValue), irValue, r)
    /\ taken' = [taken EXCEPT !.ppg = IF PpgTakes(max30102Initialized, ppg, micros + dt)
                                      THEN taken.ppg + 1 ELSE taken.ppg]
    /\ atTurn' = [atTurn EXCEPT !["ppg"] = TakenNow]
    /\ pc' = LoopAfter("rest")
    /\ UNCHANGED <<max30102Initialized, micInitialized, i2sDelivers, rawAudio,
                   audioOutputCounter, outputCounter, lastDisplayTime, loops,
                   rawECG, ecgSampleReady, ecgFilter, ecgWavelet, filteredECG,
                   waveletECG, produced, clearedSeq, processed, leadOffSince,
                   cleared, spo2Vars, filterVars, waveletVars, windowVars>>

\* loop(): processAudio().  With the microphone initialised readSample waits
\* in i2s_read (portMAX_DELAY) until the driver delivers.
processAudio ==
  /\ pc = "audio"
  /\ IF ~micInitialized
     THEN UNCHANGED <<rawAudio, audioFilter, filteredAudio, audioOutputCounter, taken>>
     ELSE /\ i2sDelivers
          /\ \E word \in I2sWords :
               /\ rawAudio' = readSample(word)
               /\ filteredAudio' = AudioOut(audioFilter, Fin(readSample(word)))
               /\ audioFilter' = AudioNext(audioFilter, Fin(readSample(word)))
          /\ audioOutputCounter' = IF audioOutputCounter + 1 >= 160 THEN 0
                                   ELSE audioOutputCounter + 1
          /\ taken' = [taken EXCEPT !.audio = taken.audio + 1]
  /\ atTurn' = [atTurn EXCEPT !["audio"] = TakenNow]
  /\ pc' = LoopAfter("audio")
  /\ UNCHANGED <<max30102Initialized, micInitialized, i2sDelivers, ppg,
                 outputCounter, lastDisplayTime, micros, loops,
                 filterCalls, lastIn, lastCascade, lastFilter, blownUp,
                 rawECG, ecgSampleReady, ecgFilter, ecgWavelet, filteredECG,
                 waveletECG, produced, clearedSeq, processed, leadOffSince,
                 cleared, spo2Vars, waveletVars, windowVars>>

\* loop(): displayValues(), outputCounter++ with its wrap at 10000; the
\* next iteration begins with processECG
LoopEnd ==
  /\ pc = "display"
  /\ loops < MaxLoops
  /\ loops' = loops + 1
  /\ lastDisplayTime' = IF micros \div 1000 - lastDisplayTime >= DISPLAY_INTERVAL_MS
                        THEN micros \div 1000 ELSE lastDisplayTime
  /\ outputCounter' = IF outputCounter + 1 >= 10000 THEN 0 ELSE outputCounter + 1
  /\ atTurn' = [atTurn EXCEPT !["ecg"] = TakenNow]
  /\ pc' = LoopAfter("display")
  /\ UNCHANGED <<max30102Initialized, micInitialized, i2sDelivers, ppg, rawAudio,
                 audioOutputCounter, micros, taken,
                 rawECG, ecgSampleReady, ecgFilter, ecgWavelet, filteredECG,
                 waveletECG, produced, clearedSeq, processed, leadOffSince,
                 cleared, spo2Vars, filterVars, waveletVars, windowVars>>

\* the timer interrupt in a run of loop(): the loop is not slower than the
\* timer, so that by the end of iteration n at most n + 1 interrupts fired
LoopEcgTimer ==
  /\ produced < loops + 1
  /\ onEcgTimer

\* setup() ended with any outcome of particleSensor.begin and microphone.begin
InitLoop ==
  /\ EcgStart /\ FilterStart /\ SpO2Idle /\ DenoiserIdle /\ HaarIdle
  /\ \E ppgOk \in BOOLEAN, micOk \in BOOLEAN, delivers \in BOOLEAN :
       /\ micOk \/ ~delivers
       /\ LoopStartWith(ppgOk, micOk, delivers)

NextLoop ==
  \/ LoopEcgTimer
  \/ EcgTest
  \/ EcgClear
  \/ EcgPins
  \/ EcgFilter
  \/ processPPG(PpgIrValues, LoopDelays)
  \/ processAudio
  \/ LoopEnd

SpecLoop == InitLoop /\ [][NextLoop]_vars

\* the calls loop() makes, one after the other
LoopCalls ==
  \/ EcgTest
  \/ EcgClear
  \/ EcgPins
  \/ EcgFilter
  \/ processPPG(PpgIrValues, LoopDelays)
  \/ processAudio
  \/ LoopEnd

\* the run made all its iterations
LoopsDone == pc = "display" /\ loops = MaxLoops

\* C11: with max30102Initialized false (begin() failed) no step changes the
\* PPG state (lastPPGSample, rawPPG_IR, ppgFilter, ppgWavelet, the windows,
\* the counters and results) and no sensor value is taken; with the
\* microphone not initialised no step changes rawAudio, audioFilter,
\* filteredAudio or audioOutputCounter, and processAudio is never waiting;
\* in both cases the loop always has its next call enabled (unless an
\* initialised microphone's driver does not deliver), so that the other
\* channels go on.
C11_DisabledChannels ==
  /\ []( /\ (~micInitialized /\ pc = "audio") => ENABLED processAudio
         /\ (~max30102Initialized /\ pc = "rest")
              => ENABLED processPPG(PpgIrValues, LoopDelays)
         /\ ((~max30102Initialized \/ ~micInitialized)
             /\ (micInitialized => i2sDelivers) /\ ~LoopsDone)
              => ENABLED LoopCalls )
  /\ [][ /\ ~max30102Initialized => (ppg' = ppg /\ taken'.ppg = taken.ppg)
         /\ ~micInitialized =>
              /\ rawAudio' = rawAudio
              /\ audioFilter' = audioFilter
              /\ filteredAudio' = filteredAudio
              /\ audioOutputCounter' = audioOutputCounter
              /\ taken'.audio = taken.audio ]_vars

\* C11 witness: both sensors failed at setup, two iterations were made in
\* which time passed, ECG samples were filtered, and the PPG and audio state
\* is as it was at start-up
C11_Witness ==
  /\ ~max30102Initialized /\ ~micInitialized
  /\ loops >= 2
  /\ micros > PPG_SAMPLE_INTERVAL_US
  /\ Len(processed) >= 2
  /\ ppg = PpgStart
  /\ rawAudio = 0 /\ audioOutputCounter = 0

\* the steps of one iteration, in the order of loop()
LoopOrder ==
  { <<"test", "clear">>, <<"test", "rest">>, <<"clear", "pins">>,
    <<"pins", "filter">>, <<"pins", "rest">>, <<"filter", "rest">>,
    <<"rest", "audio">>, <<"audio", "display">>, <<"display", "test">> }

\* C17: the loop goes through processECG, processPPG, processAudio in this
\* order and back to processECG; a channel takes a sample only in its own
\* call and at most one per call; so between two consecutive turns of a
\* channel no other channel has taken more than one sample.
C17_RoundRobin ==
  /\ [](\A c \in Channels : \A d \in Channels :
          c # d => TakenNow[c] - atTurn[d][c] <= 1)
  /\ [][ /\ pc' # pc => <<pc, pc'>> \in LoopOrder
         /\ cleared' # cleared => (pc = "clear" /\ cleared' = cleared + 1)
         /\ taken'.ppg # taken.ppg => (pc = "rest" /\ taken'.ppg = taken.ppg + 1)
         /\ taken'.audio # taken.audio
              => (pc = "audio" /\ taken'.audio = taken.audio + 1) ]_vars

\* C17 witness: in two consecutive iterations each of the three channels
\* took a sample, and the next ECG sample is already waiting
C17_Witness ==
  /\ loops >= 2
  /\ cleared >= 2 /\ taken.ppg >= 2 /\ taken.audio >= 2
  /\ ecgSampleReady

(***************************************************************************)
(* wavelet.h: the batch WaveletDenoiser.  Arrays are functions from        *)
(* 0 .. length - 1.  WAVELET_DECOMPOSITION_LEVEL is 3: the three levels of  *)
(* processBuffer are written out.                                          *)
(***************************************************************************)
\* float sqrt2 = 1.41421356f, over CoefDen
SQRT2 == 14142

\* x / sqrt2
DivSqrt2(x) == FScale(x, CoefDen, SQRT2)

FMulF[a \in Float, b \in Float] ==
  IF a.k = "nan" \/ b.k = "nan" THEN NaN
  ELSE IF a.k = "inf" \/ b.k = "inf"
       THEN (IF a.v = 0 \/ b.v = 0 THEN NaN
             ELSE IF (a.v > 0) = (b.v > 0) THEN PInf ELSE NInf)
  ELSE IF a.v = 0 \/ b.v = 0 THEN Zero
  ELSE IF Abs(a.v) > FloatMax \div Abs(b.v)
       THEN (IF (a.v > 0) = (b.v > 0) THEN PInf ELSE NInf)
  ELSE Fin(a.v * b.v)

\* a * b
FMul(a, b) == FMulF[a, b]

\* sqrt(max(x, 0.0f)): the max macro gives 0.0f unless x > 0.0f
SqrtMax0(x) ==
  IF ~FGreater(x, Zero) THEN Zero
  ELSE IF x.k = "inf" THEN PInf ELSE Fin(ISqrt(x.v))

\* data[lo].v + ... + data[hi - 1].v, lo < hi
RECURSIVE ISumRange(_, _, _)
ISumRange(data, lo, hi) ==
  IF hi - lo = 1 THEN data[lo].v
  ELSE ISumRange(data, lo, (lo + hi) \div 2) + ISumRange(data, (lo + hi) \div 2, hi)

\* sum = 0; for (i = 0; i < n; i++) sum += data[i];  The running sum is the
\* exact sum of the samples so far until it first leaves the finite range,
\* at a sample that is an infinity or at an overflow; from there it is that
\* infinity, unless an infinity of the other sign follows; a NaN anywhere
\* makes it NaN.
FSumTo(data, n) ==
  LET Leaves(k) == data[k].k # "fin"
                   \/ ISumRange(data, 0, k + 1) > FloatMax
                   \/ ISumRange(data, 0, k + 1) < -FloatMax
      first == CHOOSE k \in 0..(n - 1) :
                 Leaves(k) /\ \A m \in 0..(k - 1) : ~Leaves(m)
      sign == IF data[first].k = "inf" THEN data[first].v
              ELSE IF ISumRange(data, 0, first + 1) > 0 THEN 1 ELSE -1
  IN IF \E k \in 0..(n - 1) : data[k].k = "nan" THEN NaN
     ELSE IF \A k \in 0..(n - 1) : ~Leaves(k) THEN Fin(ISumRange(data, 0, n))
     ELSE IF \E k \in (first + 1)..(n - 1) : data[k].k = "inf" /\ data[k].v # sign
          THEN NaN
     ELSE [k |-> "inf", v |-> sign]

\* sqrt(2.0f * log((float)length)) * WAVELET_THRESHOLD_MULTIPLIER (1.5f), over
\* CoefDen, for the lengths of the three levels
ThresholdCoef(length) ==
  IF length = 64 THEN 43260 ELSE IF length = 32 THEN 39492 ELSE 35324

\* calculateThreshold(data, length)
calculateThreshold(data, length) ==
  LET sum == FSumTo(data, length)
      sumSq == FSumTo([i \in 0..(length - 1) |-> FMul(data[i], data[i])], length)
      mean == FScale(sum, 1, length)
      variance == FSub(FScale(sumSq, 1, length), FMul(mean, mean))
      sigma == SqrtMax0(variance)
  IN FMulC(ThresholdCoef(length), sigma)

\* haarDecompose(signal, length, approxOut, detailOut)
haarDecompose(signal, length) ==
  [ approx |-> [i \in 0..(length \div 2 - 1) |->
                  DivSqrt2(FAdd(signal[2 * i], signal[2 * i + 1]))],
    detail |-> [i \in 0..(length \div 2 - 1) |->
                  DivSqrt2(FSub(signal[2 * i], signal[2 * i + 1]))] ]

\* mutant of the reconstruction: the odd sample is built like the even one
haarReconstructNoSign(approxIn, detailIn, halfLen) ==
  [j \in 0..(2 * halfLen - 1) |->
     DivSqrt2(FAdd(approxIn[j \div 2], detailIn[j \div 2]))]

\* haarReconstruct(approxIn, detailIn, halfLen, signalOut)
haarReconstruct(approxIn, detailIn, halfLen) ==
  [j \in 0..(2 * halfLen - 1) |->
     IF j % 2 = 0 THEN DivSqrt2(FAdd(approxIn[j \div 2], detailIn[j \div 2]))
     ELSE DivSqrt2(FSub(approxIn[j \div 2], detailIn[j \div 2]))]

\* processBuffer: working[i] = buffer[(bufferIndex + i) % WAVELET_BUFFER_SIZE]
WaveletWorking(w) ==
  [i \in 0..(WAVELET_BUFFER_SIZE - 1) |->
     w.buffer[(w.bufferIndex + i) % WAVELET_BUFFER_SIZE]]

\* as a tuple, so that it is evaluated once
Tuple(f, n) == [i \in 1..n |-> f[i - 1]]
Array(t) == [i \in 0..(Len(t) - 1) |-> t[i + 1]]

\* processBuffer: the three decompositions, the thresholds of the three
\* detail arrays, the soft thresholding and the three reconstructions of
\* working; the thresholds and the block copied to denoisedBuffer
DenoiseBlock(working) ==
  LET n == WAVELET_BUFFER_SIZE
      l0 == haarDecompose(working, n)
      a0 == Tuple(l0.approx, n \div 2)
      d0 == Tuple(l0.detail, n \div 2)
      l1 == haarDecompose(Array(a0), n \div 2)
      a1 == Tuple(l1.approx, n \div 4)
      d1 == Tuple(l1.detail, n \div 4)
      l2 == haarDecompose(Array(a1), n \div 4)
      a2 == Tuple(l2.approx, n \div 8)
      d2 == Tuple(l2.detail, n \div 8)
      t0 == calculateThreshold(Array(d0), n \div 2)
      t1 == calculateThreshold(Array(d1), n \div 4)
      t2 == calculateThreshold(Array(d2), n \div 8)
      td0 == [i \in 0..(n \div 2 - 1) |-> softThreshold(d0[i + 1], t0)]
      td1 == [i \in 0..(n \div 4 - 1) |-> softThreshold(d1[i + 1], t1)]
      td2 == [i \in 0..(n \div 8 - 1) |-> softThreshold(d2[i + 1], t2)]
      r2 == Tuple(haarReconstruct(Array(a2), td2, n \div 8), n \div 4)
      r1 == Tuple(haarReconstruct(Array(r2), td1, n \div 4), n \div 2)
      r0 == Tuple(haarReconstruct(Array(r1), td0, n \div 2), n)
  IN [thresholds |-> <<t0, t1, t2>>, block |-> Array(r0)]

\* processBuffer()
processBuffer(w) ==
  [w EXCEPT !.denoisedBuffer = DenoiseBlock(WaveletWorking(w)).block,
            !.bufferReady = TRUE,
            !.outputIndex = 0]

\* mutant of the overlap: nothing of the block is kept
WaveletOverlapNone == WAVELET_BUFFER_SIZE - WAVELET_BUFFER_SIZE

\* addSample: samplesCollected = WAVELET_BUFFER_SIZE / 2 after a pass
WaveletOverlap == WAVELET_BUFFER_SIZE \div 2

\* addSample(sample): the sample is stored
WaveletStore(w, sample) ==
  [w EXCEPT !.buffer[w.bufferIndex] = sample,
            !.bufferIndex = (w.bufferIndex + 1) % WAVELET_BUFFER_SIZE,
            !.samplesCollected = w.samplesCollected + 1]

\* addSample(sample) makes a pass
WaveletPasses(w, sample) ==
  WaveletStore(w, sample).samplesCollected >= WAVELET_BUFFER_SIZE

\* addSample(sample): the object afterwards
WaveletAddSample(w, sample) ==
  IF WaveletPasses(w, sample)
  THEN [processBuffer(WaveletStore(w, sample)) EXCEPT !.samplesCollected = WaveletOverlap]
  ELSE WaveletStore(w, sample)

\* getDenoisedSample(): the value returned
getDenoisedSample(w) ==
  IF ~w.bufferReady THEN Zero ELSE w.denoisedBuffer[w.outputIndex]

\* getDenoisedSample(): the object afterwards
WaveletAfterGet(w) ==
  IF ~w.bufferReady THEN w
  ELSE IF w.outputIndex + 1 >= WAVELET_BUFFER_SIZE
       THEN [w EXCEPT !.bufferReady = FALSE, !.outputIndex = 0]
       ELSE [w EXCEPT !.outputIndex = w.outputIndex + 1]

(***************************************************************************)
(* SpecCadence: a WaveletDenoiser after reset(); the caller adds samples    *)
(* (a ramp of period 7, so that every window of the stream differs from    *)
(* its neighbours), reads a few denoised samples of a block one by one    *)
(* or reads a block to its end.                                            *)
(***************************************************************************)
\* addSample calls per run
MaxAdded == 260

\* single reads per block
MaxReads == 2

\* the k-th sample of the stream (k from 1)
StreamSample(k) == Fin(3 * (k % 7))

\* addSample(sample) with the next sample of the stream
DenoiserAdd ==
  /\ added < MaxAdded
  /\ added' = added + 1
  /\ sampleLog' = Append(sampleLog, StreamSample(added + 1))
  /\ denoiser' = WaveletAddSample(denoiser, StreamSample(added + 1))
  /\ passes' = IF WaveletPasses(denoiser, StreamSample(added + 1))
               THEN Append(passes,
                      [at |-> added + 1,
                       working |-> WaveletWorking(WaveletStore(denoiser,
                                                  StreamSample(added + 1))),
                       readyBefore |-> denoiser.bufferReady,
                       indexBefore |-> denoiser.outputIndex])
               ELSE passes
  /\ UNCHANGED <<haarVars, spo2Vars, ecgVars, filterVars, loopVars, windowVars>>

\* getDenoisedSample(), one of the first MaxReads reads of a block
DenoiserGet ==
  /\ denoiser.bufferReady
  /\ denoiser.outputIndex < MaxReads
  /\ denoiser' = WaveletAfterGet(denoiser)
  /\ UNCHANGED <<added, sampleLog, passes, haarVars, spo2Vars, ecgVars,
                 filterVars, loopVars, windowVars>>

\* the two fields getDenoisedSample() changes
ReadStates == [bufferReady : BOOLEAN, outputIndex : Int]

\* n getDenoisedSample() calls, n > 0, on the two fields
WaveletAfterGets[r \in ReadStates, n \in Int] ==
  IF n <= 1 THEN WaveletAfterGet(r)
  ELSE WaveletAfterGets[WaveletAfterGets[r, n \div 2], n - n \div 2]

\* getDenoisedSample() called until the block is read to its end
WaveletReadOut(w) ==
  LET r == WaveletAfterGets[[bufferReady |-> w.bufferReady,
                             outputIndex |-> w.outputIndex],
                            WAVELET_BUFFER_SIZE - w.outputIndex]
  IN [w EXCEPT !.bufferReady = r.bufferReady, !.outputIndex = r.outputIndex]

\* the caller reads the rest of the block
DenoiserReadOut ==
  /\ denoiser.bufferReady
  /\ denoiser' = WaveletReadOut(denoiser)
  /\ UNCHANGED <<added, sampleLog, passes, haarVars, spo2Vars, ecgVars,
                 filterVars, loopVars, windowVars>>

InitCadence ==
  /\ EcgStart /\ FilterStart /\ SpO2Idle /\ LoopIdle /\ HaarIdle
  /\ DenoiserIdle

NextCadence ==
  \/ DenoiserAdd
  \/ DenoiserGet
  \/ DenoiserReadOut

SpecCadence == InitCadence /\ [][NextCadence]_vars

\* C19: counted from reset(), the passes are those of the 128th addSample
\* call and of every 64th call after it; the block a pass works on is the
\* last WAVELET_BUFFER_SIZE samples added, oldest first; and the step of a
\* pass leaves bufferReady true and outputIndex 0.
C19_BlockCadence ==
  /\ []( /\ Len(passes) = (IF added < WAVELET_BUFFER_SIZE THEN 0
                           ELSE (added - WAVELET_BUFFER_SIZE) \div 64 + 1)
         /\ \A i \in 1..Len(passes) :
              /\ passes[i].at = WAVELET_BUFFER_SIZE + 64 * (i - 1)
              /\ \A j \in 0..(WAVELET_BUFFER_SIZE - 1) :
                   passes[i].working[j]
                     = sampleLog[passes[i].at - WAVELET_BUFFER_SIZE + 1 + j] )
  /\ [][ Len(passes') > Len(passes)
           => (denoiser'.bufferReady /\ denoiser'.outputIndex = 0) ]_vars

\* C19 witness: three passes were made; the second came while the first
\* block was partly read (outputIndex not 0), the third after the second
\* block had been read to its end (bufferReady false)
C19_Witness ==
  /\ Len(passes) = 3
  /\ passes[2].readyBefore /\ passes[2].indexBefore > 0
  /\ ~passes[3].readyBefore
  /\ denoiser.bufferReady /\ denoiser.outputIndex = 0

(***************************************************************************)
(* SpecHaar: the Haar transform pair on one block.  A block of 2 or 4      *)
(* samples goes through haarDecompose and haarReconstruct; a block of      *)
(* WAVELET_BUFFER_SIZE samples also through processBuffer.                  *)
(***************************************************************************)
\* largest difference that counts as rounding
HaarTolerance == 3

\* sample values of the short blocks
HaarValues ==
  {Zero, Fin(7), Fin(-4095), Fin(FloatMax \div 8), Fin(FloatMax), Fin(-FloatMax),
   NaN, PInf}

\* sample values of the long blocks
HaarLongValues == {Zero, Fin(20), Fin(-12), Fin(FloatMax \div 8), Fin(FloatMax)}

\* the block of n samples that repeats pattern (a tuple)
Periodic(pattern, n) == [i \in 0..(n - 1) |-> pattern[(i % Len(pattern)) + 1]]

HaarBlocks ==
  {Periodic(<<a, b>>, 2) : a \in HaarValues, b \in HaarValues}
  \cup {Periodic(<<a, b, c, d>>, 4) :
          a \in {Fin(7), Fin(-4095)}, b \in {Fin(7), Fin(-4095)},
          c \in {Fin(7), Fin(-4095)}, d \in {Fin(7), Fin(-4095)}}
  \cup {Periodic(<<a, b>>, WAVELET_BUFFER_SIZE) :
          a \in HaarLongValues, b \in HaarLongValues}
  \cup {Periodic(<<a, b, c, d>>, WAVELET_BUFFER_SIZE) :
          a \in {Zero, Fin(20)}, b \in {Zero, Fin(20)},
          c \in {Zero, Fin(20)}, d \in {Zero, Fin(20)}}

\* number of samples of a block
BlockLen(block) == Cardinality(DOMAIN block)

\* haarDecompose, then haarReconstruct on its two outputs
HaarSingle ==
  /\ haarOp = "none"
  /\ LET n == BlockLen(haarIn)
         l == haarDecompose(haarIn, n)
     IN haarOut' = haarReconstruct(l.approx, l.detail, n \div 2)
  /\ haarOp' = "single"
  /\ UNCHANGED <<haarIn, haarThresholds, denoiserVars, spo2Vars, ecgVars,
                 filterVars, loopVars, windowVars>>

\* processBuffer on a WaveletDenoiser whose buffer holds the block, oldest
\* sample at bufferIndex 0
HaarMulti ==
  /\ haarOp = "none"
  /\ BlockLen(haarIn) = WAVELET_BUFFER_SIZE
  /\ LET w == [WaveletDenoiserReset EXCEPT !.buffer = haarIn]
     IN /\ haarOut' = processBuffer(w).denoisedBuffer
        /\ haarThresholds' = DenoiseBlock(WaveletWorking(w)).thresholds
  /\ haarOp' = "multi"
  /\ UNCHANGED <<haarIn, denoiserVars, spo2Vars, ecgVars, filterVars, loopVars, windowVars>>

InitHaar ==
  /\ EcgStart /\ FilterStart /\ SpO2Idle /\ LoopIdle /\ DenoiserIdle
  /\ haarIn \in HaarBlocks
  /\ haarOut = <<>>
  /\ haarOp = "none"
  /\ haarThresholds = <<>>

NextHaar ==
  \/ HaarSingle
  \/ HaarMulti

SpecHaar == InitHaar /\ [][NextHaar]_vars

\* the block came back, up to rounding
RoundTripHolds ==
  \A i \in DOMAIN haarIn :
    /\ haarOut[i].k = "fin" /\ haarIn[i].k = "fin"
    /\ haarOut[i].v - haarIn[i].v <= HaarTolerance
    /\ haarIn[i].v - haarOut[i].v <= HaarTolerance

\* no soft thresholding took effect: the single-level pair applies none, and
\* processBuffer computed the threshold 0 at each of its three levels
NoThresholding ==
  \/ haarOp = "single"
  \/ haarOp = "multi" /\ \A l \in 1..3 : haarThresholds[l] = Zero

\* every sample of the block is finite, of magnitude at most an eighth of
\* the largest float
InRange ==
  \A i \in DOMAIN haarIn :
    /\ haarIn[i].k = "fin"
    /\ haarIn[i].v <= FloatMax \div 8 /\ -haarIn[i].v <= FloatMax \div 8

\* C13 as stated: for every block, haarReconstruct of haarDecompose returns
\* the block up to rounding, and so does processBuffer when every threshold
\* is 0.
C13_RoundTripAnyBlock == NoThresholding => RoundTripHolds

\* C13 amended: the same for every block of finite samples whose magnitude
\* is at most an eighth of the largest float, so that no sum of the
\* transform overflows.
C13_RoundTripInRange == (NoThresholding /\ InRange) => RoundTripHolds

\* C13 witness: a block of WAVELET_BUFFER_SIZE samples that is not constant
\* went through processBuffer with the three thresholds 0 and came back
C13_Witness ==
  /\ haarOp = "multi"
  /\ NoThresholding /\ InRange
  /\ haarIn[0] # haarIn[1]
  /\ RoundTripHolds

(***************************************************************************)
(* processPPG's collection window: processPPG called again and again with  *)
(* the sensor initialised.  A call is made when the next sample is due,    *)
(* or half an interval earlier (it then returns at the rate limit).  The   *)
(* n-th sample read has red value n; with a finger on the sensor its IR    *)
(* value is 50000 + n - 1, without one 49999, so that the samples in the   *)
(* windows can be told apart.  The finger is on the sensor, may leave it   *)
(* once and may come back once.                                            *)
(***************************************************************************)
\* samples processPPG reads in a run
MaxWindowSamples == 130

\* the longest run of samples without a finger
MaxLowRun == 12

\* calls at the rate limit are made before this many samples were read
MaxEarlySamples == 12

\* processPPG: the threshold of if (irValue < 50000)
PPG_FINGER_IR == 50000

\* processPPG: the index of redBuffer[sampleCount] after if (!isCollecting)
PpgWriteIndex(p) == IF p.isCollecting THEN p.sampleCount ELSE 0

\* processPPG: the branch a call takes
PpgBranch(initialized, p, t, irValue) ==
  IF ~PpgEnabled(initialized) THEN "off"
  ELSE IF ~PpgDue(p, t) THEN "early"
  ELSE IF irValue < PPG_FINGER_IR
       THEN IF p.noFingerCount + 1 > 10 THEN "clear" ELSE "nofinger"
  ELSE IF PpgWriteIndex(p) < bufferLength THEN "store"
  ELSE "calculate"

\* the IR value of the next sample, with and without a finger
WindowIr(finger) ==
  IF finger THEN PPG_FINGER_IR + taken.ppg ELSE PPG_FINGER_IR - 1

\* processPPG() called when the next sample is due
WindowSample ==
  \E finger \in BOOLEAN, r \in MaximResults :
    LET t == ppg.lastPPGSample + PPG_SAMPLE_INTERVAL_US
        irValue == WindowIr(finger)
        redValue == taken.ppg + 1
        branch == PpgBranch(max30102Initialized, ppg, t, irValue)
        phase == IF finger THEN (IF fingerPhase = "away" THEN "back" ELSE fingerPhase)
                 ELSE "away"
    IN /\ taken.ppg < MaxWindowSamples
       /\ ~finger => fingerPhase # "back"
       /\ ~finger => lowRun < MaxLowRun
       /\ branch = "calculate" \/ r = CHOOSE x \in MaximResults : x.validSPO2 = 0
       /\ micros' = t
       /\ ppg' = PpgStep(max30102Initialized, ppg, t, redValue, irValue, r)
       /\ taken' = [taken EXCEPT !.ppg = taken.ppg + 1]
       /\ ppgCall' = [branch |-> branch, red |-> redValue, ir |-> irValue,
                      index |-> IF branch = "store" THEN PpgWriteIndex(ppg) ELSE -1]
       /\ ppgLog' = IF branch = "store"
                    THEN Append(ppgLog, [red |-> redValue, ir |-> irValue])
                    ELSE ppgLog
       /\ lowRun' = IF finger THEN 0 ELSE lowRun + 1
       /\ fingerPhase' = phase
       /\ UNCHANGED <<max30102Initialized, micInitialized, i2sDelivers, rawAudio,
                      audioOutputCounter, outputCounter, lastDisplayTime, loops,
                      atTurn, spo2Vars, ecgVars, filterVars, waveletVars>>

\* processPPG() called half an interval before the next sample is due: it
\* returns at the rate limit
WindowEarly ==
  LET t == ppg.lastPPGSample + PPG_SAMPLE_INTERVAL_US \div 2
  IN /\ taken.ppg < MaxEarlySamples
     /\ micros < t
     /\ micros' = t
     /\ ppg' = PpgStep(max30102Initialized, ppg, t, 0, 0,
                       CHOOSE x \in MaximResults : x.validSPO2 = 0)
     /\ UNCHANGED <<max30102Initialized, micInitialized, i2sDelivers, rawAudio,
                    audioOutputCounter, outputCounter, lastDisplayTime, loops,
                    taken, atTurn, spo2Vars, ecgVars, filterVars, waveletVars,
                    windowVars>>

\* setup() ended with the PPG sensor found
InitWindow ==
  /\ EcgStart /\ FilterStart /\ SpO2Idle /\ DenoiserIdle /\ HaarIdle
  /\ LoopStartWith(TRUE, FALSE, FALSE)

NextWindow ==
  \/ WindowSample
  \/ WindowEarly

SpecWindow == InitWindow /\ [][NextWindow]_vars

\* the newest n stored samples sit at indices 0 .. n - 1 of the windows of
\* p, in the order in which they were stored
NewestInOrder(p, log, n) ==
  /\ Len(log) >= n
  /\ \A i \in 0..(n - 1) :
       /\ p.redBuffer[i] = log[Len(log) - n + i + 1].red
       /\ p.irBuffer[i] = log[Len(log) - n + i + 1].ir

\* C21: in every reachable state 0 <= sampleCount <= bufferLength; a call
\* that writes redBuffer/irBuffer writes at an index below bufferLength (and
\* the sample is then in the windows at that index); the call that finds the
\* windows full (sampleCount = bufferLength) makes the calculation and does
\* not store the sample it read (the value is nowhere in the windows
\* afterwards and the stored samples are the same as before); after it the
\* newest 75 stored samples sit at indices 0..74 in order and sampleCount =
\* 75; and sampleCount goes from a positive value to 0 only in a call that
\* ends a run of more than 10 consecutive samples with IR below 50000.
C21_CollectionWindow ==
  /\ [](ppg.sampleCount >= 0 /\ ppg.sampleCount <= bufferLength)
  /\ [][ /\ ppgLog' # ppgLog =>
              /\ ppgCall'.index >= 0 /\ ppgCall'.index < bufferLength
              /\ ppg'.redBuffer[ppgCall'.index] = ppgCall'.red
              /\ ppg'.irBuffer[ppgCall'.index] = ppgCall'.ir
              /\ ppg'.sampleCount = ppgCall'.index + 1
         /\ (taken' # taken /\ ppgCall'.ir >= PPG_FINGER_IR
             /\ ppg.isCollecting /\ ppg.sampleCount = bufferLength) =>
              /\ ppgCall'.branch = "calculate"
              /\ ppgLog' = ppgLog
              /\ \A i \in 0..(bufferLength - 1) :
                   /\ ppg'.irBuffer[i] # ppgCall'.ir
                   /\ ppg'.redBuffer[i] # ppgCall'.red
              /\ NewestInOrder(ppg', ppgLog', 75)
              /\ ppg'.sampleCount = 75
         /\ (taken' # taken /\ ppgCall'.branch = "calculate") =>
              ppg.sampleCount = bufferLength
         /\ (ppg.sampleCount > 0 /\ ppg'.sampleCount = 0) => lowRun' > 10
       ]_vars

\* C21 witness: a calculation made on windows that were cleared before (11
\* or more samples without a finger were read, then the windows filled from
\* index 0 again): the newest 75 stored samples are at 0..74
C21_Witness ==
  /\ ppgCall.branch = "calculate"
  /\ fingerPhase = "back"
  /\ taken.ppg - Len(ppgLog) >= 12
  /\ ppg.sampleCount = 75
  /\ NewestInOrder(ppg, ppgLog, 75)
  /\ ppg.irBuffer[0] # ppgLog[1].ir

(***************************************************************************)
(* SignalFilter::process and AudioFilter::process called with NaN or an    *)
(* infinity (the calls of SpecFilter).                                     *)
(***************************************************************************)
\* the SignalFilter objects f and g answer every finite input alike
SignalAlike(f, g) ==
  \A x \in FiniteInputs :
    /\ SignalOut(f, x) = SignalOut(g, x)
    /\ SignalNext(f, x) = SignalNext(g, x)

\* the AudioFilter objects f and g answer every finite input alike
AudioAlike(f, g) ==
  \A x \in FiniteInputs :
    /\ AudioOut(f, x) = AudioOut(g, x)
    /\ AudioNext(f, x) = AudioNext(g, x)

\* C22: a SignalFilter::process or AudioFilter::process call whose input is
\* NaN or an infinity returns 0 and leaves dc_x1, dc_y1 and every
\* BiquadState of the object as they were, so that the object answers the
\* next finite input (value returned and registers afterwards) as it would
\* have answered it before the rejected call.
C22_NonFiniteRejected ==
  [][ /\ (filterCalls' # filterCalls /\ lastFilter' = "signal" /\ NonFinite(lastIn')) =>
           /\ filteredECG' = Zero
           /\ ecgFilter' = ecgFilter
           /\ SignalAlike(ecgFilter', ecgFilter)
      /\ (filterCalls' # filterCalls /\ lastFilter' = "audio" /\ NonFinite(lastIn')) =>
           /\ filteredAudio' = Zero
           /\ audioFilter' = audioFilter
           /\ AudioAlike(audioFilter', audioFilter)
    ]_vars

\* C22 witness: a SignalFilter whose registers hold the sample of an earlier
\* call was called with NaN or an infinity and returned 0, and an
\* AudioFilter was called with a finite sample before
C22_Witness ==
  /\ lastFilter = "signal"
  /\ NonFinite(lastIn)
  /\ filteredECG = Zero
  /\ ecgFilter.dc_x1 = Fin(SmallInput)
  /\ ecgFilter.lp_state.x1 # Zero
  /\ audioFilter.dc_x1 = Fin(SmallInput)

=============================================================================
